---- MODULE Spec2Model ----
(***************************************************************************)
(* Model of backend/analysis/idx_shareholder.py: the extraction of         *)
(* shareholder records from the page texts of an IDX financial report.     *)
(*                                                                         *)
(* Representation of text.  A page text is a sequence of lines.  A line    *)
(* is a record                                                             *)
(*     [lead |-> words, nums |-> tokens, tail |-> words]                   *)
(* standing for the words of `lead`, then the numeric tokens of `nums`,    *)
(* then the words of `tail`, all separated by single spaces.  A numeric    *)
(* token [runs, sep, pct] stands for its digit runs joined by the one      *)
(* separator character `sep`, followed by "%" when `pct` is TRUE:          *)
(* "10,093,210,520" is runs <<1,0>>,<<0,9,3>>,<<2,1,0>>,<<5,2,0>> with     *)
(* sep ","; "69,0717%" is runs <<6,9>>,<<0,7,1,7>> with sep "," and pct.   *)
(* The regular expressions of the source are evaluated on this structure.  *)
(* Percentages are integers in units of 1/10000 (four decimals is the      *)
(* most the source's patterns read).                                       *)
(***************************************************************************)
EXTENDS Integers, Sequences, FiniteSets, TLC

\* ------------------------------------------------------------------ bounds
MaxPages == 2
MaxFiles == 2
MaxLines == 3
MaxCalls == 2
MaxDup == 3
MaxOps == 3
MaxUrls == 2

\* ------------------------------------------------------------ digit strings
RECURSIVE Num(_)
\* int("".join(digits))
Num(ds) == IF ds = <<>> THEN 0 ELSE 10 * Num(SubSeq(ds, 1, Len(ds) - 1)) + ds[Len(ds)]

RECURSIVE IntDigits(_)
\* int("".join(digits)) as the digits of the integer (Python integers are
\* unbounded; share counts exceed 2^31): leading zeros dropped, zero is <<0>>
IntDigits(ds) ==
    IF Len(ds) > 1 /\ Head(ds) = 0 THEN IntDigits(Tail(ds)) ELSE ds

\* n < 100 for n given by its digits
BelowHundred(n) == Len(n) <= 2

\* n < 1_000 for n given by its digits
BelowThousand(n) == Len(n) <= 3

\* s[:n]
FirstN(s, n) == SubSeq(s, 1, IF Len(s) < n THEN Len(s) ELSE n)
\* s[-n:]
LastN(s, n) == SubSeq(s, IF Len(s) > n THEN Len(s) - n + 1 ELSE 1, Len(s))

\* float(f"{int}.{dec}") in units of 1/10000; dec has at most four digits
Scaled(pct_int, pct_dec) ==
    LET d   == FirstN(pct_dec, 4)
        pad == CASE Len(d) = 0 -> 10000 [] Len(d) = 1 -> 1000 [] Len(d) = 2 -> 100
                 [] Len(d) = 3 -> 10 [] OTHER -> 1
    IN  Num(pct_int) * 10000 + Num(d) * pad

\* round(x, 2) on a value in units of 1/10000 (no exact ties occur in PctDecs)
Round2(v) == IF v % 100 >= 50 THEN v - (v % 100) + 100 ELSE v - (v % 100)

Min(a, b) == IF a < b THEN a ELSE b

\* ------------------------------------------------------------------- words
\* Words are opaque strings; what the source's patterns ask of a word is
\* tabulated for the vocabulary the model draws its texts from.

\* str.lower() of a vocabulary word
Lower(w) ==
    CASE w = "PT" -> "pt"                 [] w = "Abc" -> "abc"
      [] w = "Def" -> "def"               [] w = "Ghi" -> "ghi"
      [] w = "Masyarakat" -> "masyarakat" [] w = "Muhammad" -> "muhammad"
      [] w = "Arif" -> "arif"             [] w = "Nusantara" -> "nusantara"
      [] w = "Asuransi" -> "asuransi"     [] w = "Daftar" -> "daftar"
      [] w = "DAFTAR" -> "daftar"         [] w = "Isi" -> "isi"
      [] w = "ISI" -> "isi"               [] w = "Penjualan" -> "penjualan"
      [] w = "Neto" -> "neto"             [] w = "Modal" -> "modal"
      [] w = "Saham" -> "saham"           [] w = "(Lanjutan)" -> "(lanjutan)"
      [] w = "Susunan" -> "susunan"       [] w = "Pemegang" -> "pemegang"
      [] w = "Persentase" -> "persentase" [] w = "Jumlah" -> "jumlah"
      [] w = "Juni" -> "juni"             [] w = "September" -> "september"
      [] w = "Maret" -> "maret"           [] w = "Desember" -> "desember"
      [] w = "Catatan" -> "catatan"       [] w = "Halaman" -> "halaman"
      [] w = "Ltd." -> "ltd."             [] w = "Ltd" -> "ltd"
      [] OTHER -> w

RECURSIVE LowerAll(_)
LowerAll(ws) == IF ws = <<>> THEN <<>> ELSE <<Lower(Head(ws))>> \o LowerAll(Tail(ws))

\* [A-Za-z]+ : a word made of letters only
AlphaWords == {"PT", "Abc", "Def", "Ghi", "Masyarakat", "Muhammad", "Arif",
               "Nusantara", "Asuransi", "Daftar", "DAFTAR", "Isi", "ISI",
               "Penjualan", "Neto", "Modal", "Saham", "Susunan", "Pemegang",
               "Persentase", "Jumlah", "Juni", "September", "Maret",
               "Desember", "Catatan", "Halaman", "Ltd"}
IsAlpha(w) == w \in AlphaWords

\* [A-Z][a-z]+ : one capital letter followed by lower-case letters
IsCapWord(w) == w \in AlphaWords \ {"PT", "DAFTAR", "ISI"}

\* \d+\. : a section number such as "16."
IsSectionNo(w) == w \in {"16.", "22."}

\* \d{4} : a year
IsYear(w) == w \in {"2022", "2023", "2024", "2025"}

\* code points of the words that occur in a date label, for str comparison
Codes(w) ==
    CASE w = "30" -> <<51, 48>>           [] w = "31" -> <<51, 49>>
      [] w = "2022" -> <<50, 48, 50, 50>> [] w = "2023" -> <<50, 48, 50, 51>>
      [] w = "2024" -> <<50, 48, 50, 52>> [] w = "2025" -> <<50, 48, 50, 53>>
      [] w = "Juni" -> <<74, 117, 110, 105>>
      [] w = "September" -> <<83, 101, 112, 116, 101, 109, 98, 101, 114>>
      [] w = "Maret" -> <<77, 97, 114, 101, 116>>
      [] w = "Desember" -> <<68, 101, 115, 101, 109, 98, 101, 114>>
      [] w = "Unknown" -> <<85, 110, 107, 110, 111, 119, 110>>
      [] OTHER -> <<>>

RECURSIVE CharLen(_)
\* len(" ".join(words))
CharLen(ws) ==
    IF ws = <<>> THEN 0
    ELSE IF Len(ws) = 1 THEN Len(ws[1])
    ELSE Len(Head(ws)) + 1 + CharLen(Tail(ws))

\* words[i:i+len(phrase)] equals phrase, ignoring case
PhraseAt(ws, i, phrase) ==
    /\ i + Len(phrase) - 1 <= Len(ws)
    /\ \A j \in 1..Len(phrase) : Lower(ws[i + j - 1]) = phrase[j]

\* re.search(phrase, text, re.IGNORECASE) for a phrase of whole words
ContainsPhrase(ws, phrase) == \E i \in 1..Len(ws) : PhraseAt(ws, i, phrase)

\* re.match(phrase, text, re.IGNORECASE)
StartsWithPhrase(ws, phrase) == PhraseAt(ws, 1, phrase)

\* ------------------------------------------------------------ numeric tokens
Tok(runs, sep, pct) == [runs |-> runs, sep |-> sep, pct |-> pct]

DigitChar(d) ==
    CASE d = 0 -> "0" [] d = 1 -> "1" [] d = 2 -> "2" [] d = 3 -> "3" [] d = 4 -> "4"
      [] d = 5 -> "5" [] d = 6 -> "6" [] d = 7 -> "7" [] d = 8 -> "8" [] OTHER -> "9"

RECURSIVE RenderRun(_)
RenderRun(ds) == IF ds = <<>> THEN "" ELSE DigitChar(Head(ds)) \o RenderRun(Tail(ds))

RECURSIVE RenderRuns(_, _)
RenderRuns(runs, sep) ==
    IF Len(runs) = 1 THEN RenderRun(runs[1])
    ELSE RenderRun(Head(runs)) \o sep \o RenderRuns(Tail(runs), sep)

\* the characters of a token as one word
Render(t) == RenderRuns(t.runs, t.sep) \o (IF t.pct THEN "%" ELSE "")

RECURSIVE RenderToks(_)
RenderToks(ts) == IF ts = <<>> THEN <<>> ELSE <<Render(Head(ts))>> \o RenderToks(Tail(ts))

RECURSIVE Groups(_, _)
\* the number of groups the greedy (?:SEP\d{3})+ takes beginning with run j
Groups(runs, j) ==
    IF j > Len(runs) THEN 0
    ELSE IF Len(runs[j]) < 3 THEN 0
    ELSE IF Len(runs[j]) = 3 THEN 1 + Groups(runs, j + 1)
    ELSE 1

\* re.search(r'\d{1,3}(?:SEP\d{3}){n,}', token)
HasGrouped(t, sep, n) ==
    /\ t.sep = sep
    /\ \E i \in 1..(Len(t.runs) - 1) : Groups(t.runs, i + 1) >= n

LineHasGrouped(line, sep, n) == \E k \in 1..Len(line.nums) : HasGrouped(line.nums[k], sep, n)

RECURSIVE GroupDigits(_, _, _)
\* the digits of k groups beginning with run j (three digits of each)
GroupDigits(runs, j, k) ==
    IF k = 0 THEN <<>> ELSE FirstN(runs[j], 3) \o GroupDigits(runs, j + 1, k - 1)

RECURSIVE FindAllRuns(_, _, _, _)
\* re.findall(r'\d{1,3}(?:SEP\d{3})+', token): the matches from run i on, when
\* `skip` digits of run i are already consumed; tok is the token's index
FindAllRuns(runs, i, skip, tok) ==
    IF i >= Len(runs) THEN <<>>
    ELSE LET k == Groups(runs, i + 1)
         IN  IF k = 0 \/ Len(runs[i]) - skip = 0
             THEN FindAllRuns(runs, i + 1, 0, tok)
             ELSE <<[tok |-> tok, run |-> i, last |-> i + k,
                     digits |-> LastN(SubSeq(runs[i], skip + 1, Len(runs[i])), 3)
                                  \o GroupDigits(runs, i + 1, k)]>>
                  \o FindAllRuns(runs, i + k, 3, tok)

RECURSIVE FindAllFrom(_, _, _)
FindAllFrom(line, sep, k) ==
    IF k > Len(line.nums) THEN <<>>
    ELSE (IF line.nums[k].sep = sep THEN FindAllRuns(line.nums[k].runs, 1, 0, k) ELSE <<>>)
         \o FindAllFrom(line, sep, k + 1)

\* re.findall(r'\d{1,3}(?:SEP\d{3})+', line)
FindAll(line, sep) == FindAllFrom(line, sep, 1)

RECURSIVE SumDigits(_)
\* sum(len(n.replace(SEP, '')) for n in nums)
SumDigits(ms) == IF ms = <<>> THEN 0 ELSE Len(Head(ms).digits) + SumDigits(Tail(ms))

\* re.search(r'\d{1,3}SEP\d{3}(?!\d)', line)
HasSmall(line, sep) ==
    \E k \in 1..Len(line.nums) :
        /\ line.nums[k].sep = sep
        /\ \E i \in 2..Len(line.nums[k].runs) : Len(line.nums[k].runs[i]) = 3

\* the digits \d{2,4} takes of a fraction run of length n; with the trailing
\* (?!\d{3}) no length is left when three or more digits would follow
DecTake(n, lookahead) ==
    IF n < 2 THEN 0
    ELSE IF lookahead /\ n >= 7 THEN 0
    ELSE Min(n, 4)

\* -------------------------------------------------------------------- lines
Line(lead, nums, tail) == [lead |-> lead, nums |-> nums, tail |-> tail]

\* the words of the line as str.split() gives them
LineWords(line) == line.lead \o RenderToks(line.nums) \o line.tail

\* Optional[...] : None is the empty sequence, a value its one-element sequence
None == <<>>
Some(v) == <<v>>

\* a record of the result list (the dict the source returns); persentase is
\* in units of 1/10000, tanggal and pemegang_saham are word sequences,
\* jumlah_saham is the digit sequence of the integer
Rec(d, n, s, p) == [tanggal |-> d, pemegang_saham |-> n, jumlah_saham |-> s, persentase |-> p]

\* ------------------------------------------------ clean_shareholder_name_v2
\* name.strip('.,;:- ') on the word sequence: a word of only such characters
\* at either end goes away, and the last word loses such characters at its end
\* (no word of the vocabulary begins with one)
StripChars == {"-", ".", ",", ";", ":"}

\* w.rstrip('.,;:-') of a vocabulary word
RStripWord(w) ==
    CASE w = "Ltd." -> "Ltd" [] w = "16." -> "16" [] w = "22." -> "22" [] OTHER -> w

RECURSIVE StripLeft(_)
StripLeft(ws) == IF ws # <<>> /\ Head(ws) \in StripChars THEN StripLeft(Tail(ws)) ELSE ws

RECURSIVE StripRight(_)
StripRight(ws) ==
    IF ws = <<>> THEN ws
    ELSE IF ws[Len(ws)] \in StripChars THEN StripRight(SubSeq(ws, 1, Len(ws) - 1))
    ELSE [ws EXCEPT ![Len(ws)] = RStripWord(ws[Len(ws)])]

StripPunct(ws) == StripRight(StripLeft(ws))

\* the least k >= 2 with words[:k] = "PT ..." of letters and words[k:2k] its
\* case-insensitive repeat: ^(PT\s+[A-Za-z\s]+?)\s+\1(.*)$ ; 0 when none
PtDupLen(ws) ==
    LET ok(k) == /\ 2 * k <= Len(ws)
                 /\ Lower(ws[1]) = "pt"
                 /\ \A j \in 1..k : IsAlpha(ws[j])
                 /\ LowerAll(SubSeq(ws, k + 1, 2 * k)) = LowerAll(SubSeq(ws, 1, k))
        ks == {k \in 2..Len(ws) : ok(k)}
    IN  IF ks = {} THEN 0 ELSE CHOOSE k \in ks : \A m \in ks : k <= m

PtDup(ws) ==
    LET k == PtDupLen(ws)
    IN  IF k = 0 THEN ws ELSE SubSeq(ws, 1, k) \o SubSeq(ws, 2 * k + 1, Len(ws))

\* the split points range(len//2 - 1, len//2 + 2) that pass 2 <= s < len - 1
\* and whose second part starts with the first half
DupSplits(ws) ==
    {s \in ((Len(ws) \div 2) - 1)..((Len(ws) \div 2) + 1) :
        /\ 2 <= s /\ s < Len(ws) - 1
        /\ 2 * s <= Len(ws)
        /\ LowerAll(SubSeq(ws, s + 1, 2 * s)) = LowerAll(SubSeq(ws, 1, s))}

\* the loop over split points: the first that matches rewrites the name
DupCollapse(ws) ==
    IF Len(ws) < 4 \/ DupSplits(ws) = {} THEN ws
    ELSE LET s == CHOOSE s \in DupSplits(ws) : \A m \in DupSplits(ws) : s <= m
         IN  SubSeq(ws, 1, s) \o SubSeq(ws, 2 * s + 1, Len(ws))

clean_shareholder_name_v2(name) ==
    IF name = <<>> THEN <<>>
    ELSE LET stripped == StripPunct(name)
         IN  IF StartsWithPhrase(stripped, <<"di", "bawah", "5%">>)
             THEN <<"Masyarakat">>
             ELSE StripPunct(DupCollapse(PtDup(stripped)))
\* (the "(qq. ...)" and "(... below/bawah ...)" substitutions are the identity
\*  on the vocabulary: no word of it carries "qq" or a parenthesis in a name)

\* ------------------------------------------------ extract_modal_saham_row_v2
SkipStartWords == {"pada", "berdasarkan", "dari", "yang", "sesuai", "dengan",
                   "melalui", "sebesar", "sebanyak",
                   "based", "from", "according", "through", "in", "the", "a", "an",
                   "c.", "d."}
SkipPhrases == {<<"penawaran", "umum">>, <<"public", "offering">>,
                <<"modal", "dasar">>, <<"authorized", "capital">>,
                <<"modal", "ditempatkan">>, <<"issued", "capital">>,
                <<"modal", "disetor">>, <<"saham", "biasa">>, <<"common", "stock">>,
                <<"nilai", "nominal">>, <<"par", "value">>, <<"waran", "seri">>,
                <<"konsolidasian">>, <<"consolidated">>, <<"rencana", "perseroan">>,
                <<"pmthmetd">>, <<"pmhmetd">>, <<"financial", "statements">>,
                <<"konteks">>, <<"context">>}

\* any(re.search(p, line, re.IGNORECASE) for p in skip_patterns)
ModalSkip(line) ==
    LET ws == LineWords(line)
    IN  \/ (ws # <<>> /\ Lower(ws[1]) \in SkipStartWords)
        \/ \E p \in SkipPhrases : ContainsPhrase(ws, p)

\* the word begins with a digit
StartsWithDigit(w) == w \in {"30", "31", "2022", "2023", "2024", "2025", "16.", "22."}

\* position n of the line holds something that begins with a digit
DigitAt(line, n) ==
    \/ (n <= Len(line.lead) /\ StartsWithDigit(line.lead[n]))
    \/ (n = Len(line.lead) + 1 /\ line.nums # <<>>)

\* any(re.match(p, line, re.IGNORECASE) for p in valid_start_patterns)
HasValidStart(line) ==
    LET l == line.lead
        two == Len(l) >= 2 /\ IsAlpha(l[1]) /\ Len(l[1]) >= 2
                           /\ IsAlpha(l[2]) /\ Len(l[2]) >= 2
    IN  /\ l # <<>>
        /\ \/ (Lower(l[1]) = "pt" /\ Len(l) >= 2 /\ IsAlpha(l[2]))
           \/ Lower(l[1]) = "masyarakat"
           \/ (two /\ DigitAt(line, 3))
           \/ Lower(l[1]) \in {"goldwave", "zurich"}
           \/ (Lower(l[1]) = "nusantara" /\ DigitAt(line, 2))
           \/ StartsWithPhrase(l, <<"kepemilikan", "di", "bawah">>)
           \/ StartsWithPhrase(l, <<"international", "ltd">>)
           \/ (two /\ Len(l) >= 3 /\ Lower(l[3]) \in {"pte", "pte.", "ltd", "ltd."})

\* line 425 with `>`
DotCapturesStrictlyMore(dot_nums, comma_nums) == SumDigits(dot_nums) > SumDigits(comma_nums)

\* lines 421-425: dot_digits >= comma_digits
DotCapturesMore(dot_nums, comma_nums) == SumDigits(dot_nums) >= SumDigits(comma_nums)

\* lines 401-452 without the small_comma branch of lines 444-447
ResolveFormatNoSmallComma(line) ==
    LET dot_thousands_match   == LineHasGrouped(line, ".", 2)
        comma_thousands_match == LineHasGrouped(line, ",", 2)
        dot_nums   == FindAll(line, ".")
        comma_nums == FindAll(line, ",")
        dotStyle   == [ok |-> TRUE, thousand_sep |-> ".", decimal_sep |-> ",", numbers |-> dot_nums]
        commaStyle == [ok |-> TRUE, thousand_sep |-> ",", decimal_sep |-> ".", numbers |-> comma_nums]
        fail       == [ok |-> FALSE, thousand_sep |-> "", decimal_sep |-> "", numbers |-> <<>>]
    IN  IF dot_thousands_match /\ ~comma_thousands_match THEN dotStyle
        ELSE IF comma_thousands_match /\ ~dot_thousands_match THEN commaStyle
        ELSE IF dot_thousands_match /\ comma_thousands_match
        THEN (IF DotCapturesMore(dot_nums, comma_nums) THEN dotStyle ELSE commaStyle)
        ELSE IF HasSmall(line, ".") THEN dotStyle
        ELSE fail

\* the separator decision and the `numbers` list: [ok, thousand_sep,
\* decimal_sep, numbers]
ResolveFormat(line) ==
    LET dot_thousands_match   == LineHasGrouped(line, ".", 2)
        comma_thousands_match == LineHasGrouped(line, ",", 2)
        dot_nums   == FindAll(line, ".")
        comma_nums == FindAll(line, ",")
        dotStyle   == [ok |-> TRUE, thousand_sep |-> ".", decimal_sep |-> ",", numbers |-> dot_nums]
        commaStyle == [ok |-> TRUE, thousand_sep |-> ",", decimal_sep |-> ".", numbers |-> comma_nums]
        fail       == [ok |-> FALSE, thousand_sep |-> "", decimal_sep |-> "", numbers |-> <<>>]
    IN  IF dot_thousands_match /\ ~comma_thousands_match THEN dotStyle
        ELSE IF comma_thousands_match /\ ~dot_thousands_match THEN commaStyle
        ELSE IF dot_thousands_match /\ comma_thousands_match
        THEN (IF DotCapturesMore(dot_nums, comma_nums) THEN dotStyle ELSE commaStyle)
        ELSE IF HasSmall(line, ".") THEN dotStyle
        ELSE IF HasSmall(line, ",") THEN commaStyle
        ELSE fail

\* the (token, run) places where (\d{1,3})SEP(\d{2,4}) matches, in line order
PctPlaces(line, sep, lookahead) ==
    UNION {{<<k, i>> : i \in {i \in 1..(Len(line.nums[k].runs) - 1) :
                                /\ line.nums[k].sep = sep
                                /\ DecTake(Len(line.nums[k].runs[i + 1]), lookahead) > 0}}
           : k \in 1..Len(line.nums)}

FirstPlace(ps) ==
    CHOOSE p \in ps : \A q \in ps : p[1] < q[1] \/ (p[1] = q[1] /\ p[2] <= q[2])

\* pct_match: None, or the pair of groups (pct_int, pct_dec)
ModalPctMatch(line, decimal_sep) ==
    LET lookahead == (decimal_sep = ".")
        ps == PctPlaces(line, decimal_sep, lookahead)
    IN  IF ps = {} THEN None
        ELSE LET p == FirstPlace(ps)
                 t == line.nums[p[1]]
             IN  Some([int |-> LastN(t.runs[p[2]], 3),
                       dec |-> FirstN(t.runs[p[2] + 1],
                                      DecTake(Len(t.runs[p[2] + 1]), lookahead))])

\* lines 472-475 with round(percentage, 2) in place of pct_dec[:2]
ModalPercentageRounded(pct_int, pct_dec) ==
    IF pct_int = <<0>> /\ Head(pct_dec) = 0 THEN Scaled(pct_int, pct_dec)
    ELSE IF Len(pct_dec) > 2 THEN Round2(Scaled(pct_int, pct_dec))
    ELSE Scaled(pct_int, pct_dec)

\* lines 465-477: the percentage of the structured-section strategy
ModalPercentage(pct_int, pct_dec) ==
    IF pct_int = <<0>> /\ Head(pct_dec) = 0 THEN Scaled(pct_int, pct_dec)
    ELSE IF Len(pct_dec) > 2 THEN Scaled(pct_int, FirstN(pct_dec, 2))
    ELSE Scaled(pct_int, pct_dec)

\* line 481: if percentage < 0 or percentage > 100
ModalPctRejected(percentage) == percentage < 0 \/ percentage > 100 * 10000

\* line[:line.find(numbers[0])].strip() as words, for a match m of `numbers`
NamePart(line, m) ==
    LET t == line.nums[m.tok]
        before == line.lead \o RenderToks(SubSeq(line.nums, 1, m.tok - 1))
    IN  IF m.run = 1 THEN before
        ELSE before \o <<RenderRuns(SubSeq(t.runs, 1, m.run - 1), t.sep) \o t.sep>>

\* lines 497-526: the name chosen from name_part and name_prefix (<<>>: none)
ModalName(name_part, name_prefix) ==
    IF ContainsPhrase(name_part, <<"kepemilikan", "di", "bawah">>) THEN <<"Masyarakat">>
    ELSE IF \E i \in 1..Len(name_part) : Lower(name_part[i]) = "masyarakat" THEN <<"Masyarakat">>
    ELSE IF Len(name_part) = 2 /\ IsCapWord(name_part[1]) /\ IsCapWord(name_part[2]) THEN name_part
    ELSE IF Len(name_part) >= 2 /\ Lower(name_part[1]) = "pt" THEN name_part
    ELSE IF name_prefix # <<>> /\ name_part # <<>> THEN name_prefix \o name_part
    ELSE IF name_part # <<>> /\ Lower(name_part[Len(name_part)])
                                  \in {"ltd", "ltd.", "ltd.)", "ltd)", "limited", "limited)"}
    THEN name_part
    ELSE IF name_prefix # <<>> THEN name_prefix
    ELSE IF name_part # <<>> /\ CharLen(name_part) > 3 THEN name_part
    ELSE <<>>

extract_modal_saham_row_v2(line, current_date, name_prefix) ==
    IF ModalSkip(line) THEN None
    ELSE IF ~HasValidStart(line) /\ name_prefix = <<>> THEN None
    ELSE LET fmt == ResolveFormat(line)
         IN  IF ~fmt.ok \/ Len(fmt.numbers) < 1 THEN None
             ELSE LET pct_match == ModalPctMatch(line, fmt.decimal_sep)
                  IN  IF pct_match = None THEN None
                      ELSE LET percentage == ModalPercentage(pct_match[1].int, pct_match[1].dec)
                               shares == IntDigits(fmt.numbers[1].digits)
                               name == ModalName(NamePart(line, fmt.numbers[1]), name_prefix)
                               cleaned == clean_shareholder_name_v2(name)
                           IN  IF ModalPctRejected(percentage) THEN None
                               ELSE IF BelowThousand(shares) THEN None
                               ELSE IF name = <<>> \/ CharLen(name) < 4 THEN None
                               ELSE IF cleaned = <<>> \/ CharLen(cleaned) < 4 THEN None
                               ELSE Some(Rec(current_date, cleaned, shares, percentage))

\* ----------------------------------------- extract_shareholder_single_row_v2
\* re.search(r'\d{1,2}[,\.]\d{2,4}\s*%', line)
HasPercentage(line) ==
    \E k \in 1..Len(line.nums) :
        LET t == line.nums[k]
        IN  /\ t.pct /\ Len(t.runs) >= 2
            /\ Len(t.runs[Len(t.runs)]) \in 2..4

RECURSIVE AlphaPrefix(_)
\* the leading words made of letters: ^([A-Za-z][A-Za-z\s]*)
AlphaPrefix(ws) ==
    IF ws = <<>> \/ ~IsAlpha(Head(ws)) THEN <<>> ELSE <<Head(ws)>> \o AlphaPrefix(Tail(ws))

RECURSIVE CapPrefix(_)
\* the leading words of two or more letters: ^([A-Z][a-z]+(?:\s+[A-Z][a-z]+)*)
CapPrefix(ws) ==
    IF ws = <<>> \/ ~IsAlpha(Head(ws)) \/ Len(Head(ws)) < 2 THEN <<>>
    ELSE <<Head(ws)>> \o CapPrefix(Tail(ws))

RECURSIVE ExactGroups(_, _)
\* the groups of exactly three digits from run j on: (?:\.\d{3})+ up to a \b
ExactGroups(runs, j) ==
    IF j > Len(runs) \/ Len(runs[j]) # 3 THEN 0 ELSE 1 + ExactGroups(runs, j + 1)

\* the (token, run) places where \b(\d{1,3}(?:\.\d{3})+)\b matches
SharePlaces(line) ==
    UNION {{<<k, i>> : i \in {i \in 1..(Len(line.nums[k].runs) - 1) :
                                /\ line.nums[k].sep = "."
                                /\ Len(line.nums[k].runs[i]) <= 3
                                /\ ExactGroups(line.nums[k].runs, i + 1) >= 1}}
           : k \in 1..Len(line.nums)}

\* lines 965-1002: the name before cleaning (<<>>: none found)
GenericRawName(line, name_prefix) ==
    LET l == line.lead
    IN  IF StartsWithPhrase(l, <<"kepemilikan", "di", "bawah">>)
           \/ StartsWithPhrase(l, <<"ownership)">>)
        THEN <<"Masyarakat">>
        ELSE IF name_prefix # <<>> THEN name_prefix \o AlphaPrefix(l)
        ELSE IF Len(l) >= 2 /\ Lower(l[1]) = "pt" /\ IsAlpha(l[2]) THEN AlphaPrefix(l)
        ELSE IF l # <<>> /\ Lower(l[1]) \in {"masyarakat", "public"} THEN <<l[1]>>
        ELSE IF CapPrefix(l) # <<>> THEN CapPrefix(l)
        ELSE IF SharePlaces(line) # {} /\ \E i \in 1..Len(l) : IsAlpha(l[i])
        THEN NamePart(line, [tok |-> FirstPlace(SharePlaces(line))[1],
                             run |-> FirstPlace(SharePlaces(line))[2]])
        ELSE <<>>

\* lines 1012-1019: "PT ABC PT ABC" -> "PT ABC"
HalfDup(ws) ==
    LET half == Len(ws) \div 2
    IN  IF Len(ws) >= 4 /\ Len(ws) = 2 * half
           /\ LowerAll(SubSeq(ws, 1, half)) = LowerAll(SubSeq(ws, half + 1, Len(ws)))
        THEN SubSeq(ws, 1, half) ELSE ws

skip_keywords == {<<"asuransi">>, <<"docking">>, <<"direksi">>, <<"komisaris">>,
                  <<"bahan", "bakar">>, <<"sewa">>, <<"peralatan">>, <<"perlengkapan">>,
                  <<"kapal">>, <<"kendaraan">>, <<"deposit">>, <<"belum", "jatuh">>,
                  <<"dikurangi">>, <<"pembangunan">>, <<"lainnya">>, <<"issued">>,
                  <<"fully", "paid">>}

\* lines 1027-1046: the checks that reject a cleaned name
GenericNameRejected(name) ==
    \/ name = <<>>
    \/ name[1] \in {"di", "kepemilikan"} \/ Lower(name[1]) = "jumlah"
    \/ \E kw \in skip_keywords : ContainsPhrase(name, kw)
    \/ ~(IsAlpha(name[1]) \/ name[1] \in {"(Lanjutan)"})
    \/ CharLen(name) < 5

\* the percentage match in after_shares, after the share match at place sp
\* with g groups: first (\d{1,3})[,.](\d{2,4})\s*% , else ...\s+\d
GenericPctPlaces(line, sp, g, withSign) ==
    UNION {{<<k, i>> : i \in {i \in 1..(Len(line.nums[k].runs) - 1) :
                LET t == line.nums[k]
                IN  /\ (k > sp[1] \/ i > sp[2] + g)
                    /\ i + 1 = Len(t.runs)
                    /\ Len(t.runs[i + 1]) \in 2..4
                    /\ IF withSign THEN t.pct ELSE ~t.pct /\ k < Len(line.nums)}}
           : k \in sp[1]..Len(line.nums)}

\* line 1077 without `and percentage >= 0.01`
GenericPercentageAlwaysRounded(integer_part, decimal_part) ==
    LET percentage == Scaled(integer_part, decimal_part)
    IN  IF Len(decimal_part) > 2 THEN Round2(percentage) ELSE percentage

\* round(percentage, 2) when more than two decimals and percentage >= 0.01
GenericPercentage(integer_part, decimal_part) ==
    LET percentage == Scaled(integer_part, decimal_part)
    IN  IF Len(decimal_part) > 2 /\ percentage >= 100 THEN Round2(percentage)
        ELSE percentage

\* line 1082: if percentage <= 0 or percentage > 100
GenericPctRejected(percentage) == percentage <= 0 \/ percentage > 100 * 10000

extract_shareholder_single_row_v2(line, current_date, name_prefix) ==
    IF ~LineHasGrouped(line, ".", 1) \/ ~HasPercentage(line) THEN None
    ELSE LET raw == GenericRawName(line, name_prefix)
             name == StripPunct(HalfDup(raw))
         IN  IF raw = <<>> \/ CharLen(raw) < 3 THEN None
             ELSE IF GenericNameRejected(name) THEN None
             ELSE IF SharePlaces(line) = {} THEN None
             ELSE LET sp == FirstPlace(SharePlaces(line))
                      t  == line.nums[sp[1]]
                      g  == ExactGroups(t.runs, sp[2] + 1)
                      shares == IntDigits(t.runs[sp[2]] \o GroupDigits(t.runs, sp[2] + 1, g))
                      signed == GenericPctPlaces(line, sp, g, TRUE)
                      bare   == GenericPctPlaces(line, sp, g, FALSE)
                      places == IF signed # {} THEN signed ELSE bare
                  IN  IF BelowThousand(shares) THEN None
                      ELSE IF places = {} THEN None
                      ELSE LET pp == FirstPlace(places)
                               pt == line.nums[pp[1]]
                               percentage == GenericPercentage(LastN(pt.runs[pp[2]], 3),
                                                               pt.runs[pp[2] + 1])
                           IN  IF GenericPctRejected(percentage) THEN None
                               ELSE Some(Rec(current_date, name, shares, percentage))

\* -------------------------------------------------------------- detect_dates
\* A page text is a sequence of lines; its words in reading order
RECURSIVE TextWords(_)
TextWords(text) == IF text = <<>> THEN <<>> ELSE LineWords(Head(text)) \o TextWords(Tail(text))

\* the period ends of a year in the order of the pattern lists, each with the
\* Indonesian phrase and the English phrases (with and without the comma)
PeriodForms(y) ==
    << [label |-> <<"30", "September", y>>,
        forms |-> {<<"30", "september", y>>, <<"september", "30,", y>>, <<"september", "30", y>>}],
       [label |-> <<"30", "Juni", y>>,
        forms |-> {<<"30", "juni", y>>, <<"june", "30,", y>>, <<"june", "30", y>>}],
       [label |-> <<"31", "Maret", y>>,
        forms |-> {<<"31", "maret", y>>, <<"march", "31,", y>>, <<"march", "31", y>>}],
       [label |-> <<"31", "Desember", y>>,
        forms |-> {<<"31", "desember", y>>, <<"december", "31,", y>>, <<"december", "31", y>>}] >>

\* lines 770-798: the patterns of detect_dates, 2025 first
DatePatterns == PeriodForms("2025") \o PeriodForms("2024") \o PeriodForms("2023")

RECURSIVE MatchedLabels(_, _)
\* the labels of the patterns found in the words, in pattern order
MatchedLabels(ws, patterns) ==
    IF patterns = <<>> THEN <<>>
    ELSE (IF \E f \in Head(patterns).forms : ContainsPhrase(ws, f)
          THEN <<Head(patterns).label>> ELSE <<>>)
         \o MatchedLabels(ws, Tail(patterns))

detect_dates(text) == MatchedLabels(TextWords(text), DatePatterns)

Unknown == <<"Unknown">>

\* ------------------------------------------------- parse_modal_saham_format
\* the state of a line scan
ScanState(d, p, sh) == [current_date |-> d, pending_name |-> p, shareholders |-> sh]

\* date_section_pattern.match(line_stripped)
IsDateSection(ws) ==
    /\ Len(ws) >= 3
    /\ \/ (ws[1] = "31" /\ Lower(ws[2]) \in {"maret", "desember"})
       \/ (ws[1] = "30" /\ Lower(ws[2]) \in {"juni", "september"})
    /\ IsYear(ws[3])
    /\ (Len(ws) = 3 \/ ws[4] = "/")

\* lines 283-301: header, total, series and explanatory lines
ModalSkippedLine(ws) ==
    \/ StartsWithPhrase(ws, <<"pemegang", "saham">>)
    \/ StartsWithPhrase(ws, <<"jumlah", "saham">>)
    \/ StartsWithPhrase(ws, <<"number", "of">>)
    \/ StartsWithPhrase(ws, <<"saham", "seri">>)
    \/ StartsWithPhrase(ws, <<"nama", "pemegang">>)
    \/ StartsWithPhrase(ws, <<"based", "on">>)
    \/ Lower(ws[1]) \in {"shareholder", "shareholders", "percentage", "persentase",
                         "jumlah", "total", "sub-jumlah", "subjumlah", "sub-total",
                         "subtotal", "catatan", "note", "notes", "berdasarkan",
                         "komposisi", "composition"}

\* re.search(r'\d{1,3}[.,]\d{3}', line_stripped)
HasNumbers(line) ==
    \E k \in 1..Len(line.nums) :
        \E i \in 2..Len(line.nums[k].runs) : Len(line.nums[k].runs[i]) >= 3

\* ^PT\s+[A-Za-z][A-Za-z\s]+$ (case-sensitive)
IsPtNameLine(ws) ==
    /\ Len(ws) >= 2 /\ ws[1] = "PT"
    /\ \A i \in 1..Len(ws) : IsAlpha(ws[i])
    /\ CharLen(Tail(ws)) >= 2

\* lines 306-325 without the name-only branches of lines 309-310 and 322-324
ModalPendingNoPtLine(ws, pending_name) ==
    IF Len(ws) = 1 /\ Lower(ws[1]) = "masyarakat" THEN <<"Masyarakat">>
    ELSE IF pending_name = <<"Masyarakat">> /\ ws[1] = "(masing-masing" THEN pending_name
    ELSE IF pending_name # <<>> /\ ws[1] \in {"(qq.", "(QQ.", "(Qq.", "(qQ."} THEN pending_name \o ws
    ELSE pending_name

\* lines 306-325: a line without share numbers may start a multi-line name
ModalPending(ws, pending_name) ==
    IF IsPtNameLine(ws) THEN ws
    ELSE IF Len(ws) = 1 /\ Lower(ws[1]) = "masyarakat" THEN <<"Masyarakat">>
    ELSE IF pending_name = <<"Masyarakat">> /\ ws[1] = "(masing-masing" THEN pending_name
    ELSE IF pending_name # <<>> /\ ws[1] \in {"(qq.", "(QQ.", "(Qq.", "(qQ."} THEN pending_name \o ws
    ELSE IF (\A i \in 1..Len(ws) : IsAlpha(ws[i])) /\ CharLen(ws) > 3
    THEN (IF pending_name = <<>> THEN ws ELSE pending_name)
    ELSE pending_name

\* a scan that keeps the fragment after a line with share numbers
PendingKeptAfterRow(pending_name) == pending_name

\* line 333: the fragment is dropped once a line with share numbers was read
PendingAfterRow(pending_name) == <<>>

\* lines 267-333 without the reset of line 285
ModalLineStepKeepsAtHeader(st, line) ==
    LET ws == LineWords(line)
    IN  IF ws = <<>> THEN ScanState(st.current_date, <<>>, st.shareholders)
        ELSE IF IsDateSection(ws) THEN ScanState(<<ws[1], ws[2], ws[3]>>, <<>>, st.shareholders)
        ELSE IF ModalSkippedLine(ws) THEN st
        ELSE IF ~HasNumbers(line)
        THEN ScanState(st.current_date, ModalPending(ws, st.pending_name), st.shareholders)
        ELSE ScanState(st.current_date, PendingAfterRow(st.pending_name),
                       st.shareholders
                         \o extract_modal_saham_row_v2(line, st.current_date, st.pending_name))

\* one iteration of the loop of lines 267-333
ModalLineStep(st, line) ==
    LET ws == LineWords(line)
    IN  IF ws = <<>> THEN ScanState(st.current_date, <<>>, st.shareholders)
        ELSE IF IsDateSection(ws) THEN ScanState(<<ws[1], ws[2], ws[3]>>, <<>>, st.shareholders)
        ELSE IF ModalSkippedLine(ws) THEN ScanState(st.current_date, <<>>, st.shareholders)
        ELSE IF ~HasNumbers(line)
        THEN ScanState(st.current_date, ModalPending(ws, st.pending_name), st.shareholders)
        ELSE ScanState(st.current_date, PendingAfterRow(st.pending_name),
                       st.shareholders
                         \o extract_modal_saham_row_v2(line, st.current_date, st.pending_name))

RECURSIVE ModalScan(_, _)
ModalScan(st, lines) ==
    IF lines = <<>> THEN st ELSE ModalScan(ModalLineStep(st, Head(lines)), Tail(lines))

parse_modal_saham_format(text, dates) ==
    ModalScan(ScanState(IF dates # <<>> THEN dates[1] ELSE Unknown, <<>>, <<>>), text).shareholders

\* --------------------------------------------- parse_shareholders_multidate
\* lines 822-846: as DatePatterns, without the English forms of 2023
RECURSIVE IndonesianOnly(_)
IndonesianOnly(ps) ==
    IF ps = <<>> THEN <<>>
    ELSE <<[label |-> Head(ps).label, forms |-> {LowerAll(Head(ps).label)}]>>
         \o IndonesianOnly(Tail(ps))

date_patterns ==
    PeriodForms("2025") \o PeriodForms("2024") \o IndonesianOnly(PeriodForms("2023"))

\* lines 865-873: header and total rows
GenericSkippedLine(ws) ==
    \/ StartsWithPhrase(ws, <<"pemegang", "saham">>)
    \/ StartsWithPhrase(ws, <<"jumlah", "saham">>)
    \/ StartsWithPhrase(ws, <<"number", "of">>)
    \/ StartsWithPhrase(ws, <<"saham", "seri">>)
    \/ StartsWithPhrase(ws, <<"nama", "pemegang">>)
    \/ Lower(ws[1]) \in {"shareholder", "shareholders", "total", "sub-jumlah", "subjumlah",
                         "sub-total", "subtotal", "percentage", "persentase",
                         "ditempatkan", "disetor", "issued", "jumlah"}

\* line 876: words of the adjacent financial-statement tables
NonShareholderWords == {"utang", "liabilitas", "beban", "aset", "pendapatan", "biaya",
                        "catatan", "note", "notes"}

GenericNonShareholder(ws) ==
    \/ \E i \in 1..Len(ws) : Lower(ws[i]) \in NonShareholderWords
    \/ ContainsPhrase(ws, <<"modal", "dasar">>)
    \/ ContainsPhrase(ws, <<"modal", "ditempatkan">>)
    \/ ContainsPhrase(ws, <<"jumlah", "modal">>)
    \/ ContainsPhrase(ws, <<"ownership", "(%)">>)

\* lines 889-898: a "PT ..." line is kept as prefix, a doubled one halved
GenericPrefixLine(ws) == HalfDup(ws)

\* lines 851-912 without the assignment of line 860
GenericLineStepKeepsLabel(st, line) ==
    LET ws == LineWords(line)
        hits == MatchedLabels(ws, date_patterns)
        d  == st.current_date
        p  == IF hits # <<>> THEN <<>> ELSE st.pending_name
        result == extract_shareholder_single_row_v2(line, d, p)
    IN  IF ws = <<>> THEN ScanState(st.current_date, <<>>, st.shareholders)
        ELSE IF GenericSkippedLine(ws) \/ GenericNonShareholder(ws)
        THEN ScanState(d, <<>>, st.shareholders)
        ELSE IF ws[1] \in {"(masing-masing", "(each"}
                /\ ~(LineHasGrouped(line, ".", 1) /\ HasPercentage(line))
        THEN ScanState(d, p, st.shareholders)
        ELSE IF IsPtNameLine(ws) THEN ScanState(d, GenericPrefixLine(ws), st.shareholders)
        ELSE IF result # None THEN ScanState(d, <<>>, st.shareholders \o result)
        ELSE IF p # <<>> /\ line.nums = <<>> /\ \A i \in 1..Len(ws) : ~StartsWithDigit(ws[i])
        THEN ScanState(d, p \o ws, st.shareholders)
        ELSE ScanState(d, <<>>, st.shareholders)

\* one iteration of the loop of lines 851-912
GenericLineStep(st, line) ==
    LET ws == LineWords(line)
        hits == MatchedLabels(ws, date_patterns)
        d  == IF hits # <<>> THEN hits[1] ELSE st.current_date
        p  == IF hits # <<>> THEN <<>> ELSE st.pending_name
        result == extract_shareholder_single_row_v2(line, d, p)
    IN  IF ws = <<>> THEN ScanState(st.current_date, <<>>, st.shareholders)
        ELSE IF GenericSkippedLine(ws) \/ GenericNonShareholder(ws)
        THEN ScanState(d, <<>>, st.shareholders)
        ELSE IF ws[1] \in {"(masing-masing", "(each"}
                /\ ~(LineHasGrouped(line, ".", 1) /\ HasPercentage(line))
        THEN ScanState(d, p, st.shareholders)
        ELSE IF IsPtNameLine(ws) THEN ScanState(d, GenericPrefixLine(ws), st.shareholders)
        ELSE IF result # None THEN ScanState(d, <<>>, st.shareholders \o result)
        ELSE IF p # <<>> /\ line.nums = <<>> /\ \A i \in 1..Len(ws) : ~StartsWithDigit(ws[i])
        THEN ScanState(d, p \o ws, st.shareholders)
        ELSE ScanState(d, <<>>, st.shareholders)

RECURSIVE GenericScan(_, _)
GenericScan(st, lines) ==
    IF lines = <<>> THEN st ELSE GenericScan(GenericLineStep(st, Head(lines)), Tail(lines))

parse_shareholders_multidate(text, dates) ==
    GenericScan(ScanState(IF dates # <<>> THEN dates[1] ELSE Unknown, <<>>, <<>>), text).shareholders

\* ------------------------------------------- extract_shareholders_from_pdf
\* re.search(phrase, text, re.IGNORECASE) over the page (\s* spans lines)
PageHas(text, phrases) == \E ph \in phrases : ContainsPhrase(TextWords(text), ph)

\* line 153
is_toc(text) == PageHas(text, {<<"daftar", "isi">>, <<"table", "of", "contents">>})

\* line 158
is_sales_page(text) ==
    PageHas(text, {<<"penjualan", "neto">>, <<"net", "sales">>, <<"pelanggan", "yang">>,
                   <<"customer", "which">>, <<"customers", "which">>})

\* \d+\.\s*Modal\s*Saham at word i of the page
ModalSahamAt(ws, i) ==
    /\ i + 2 <= Len(ws)
    /\ IsSectionNo(ws[i]) /\ Lower(ws[i + 1]) = "modal" /\ Lower(ws[i + 2]) = "saham"

\* line 166
is_modal_saham_continuation(text) ==
    LET ws == TextWords(text)
    IN  \E i \in 1..Len(ws) :
            /\ ModalSahamAt(ws, i) /\ i + 3 <= Len(ws)
            /\ Lower(ws[i + 3]) \in {"(lanjutan)", "(continued)"}

\* lines 164-170
has_modal_saham_section(text) ==
    LET ws == TextWords(text)
    IN  /\ \E i \in 1..Len(ws) : ModalSahamAt(ws, i)
        /\ ~is_modal_saham_continuation(text)

\* line 173
has_susunan_in_page(text) == PageHas(text, {<<"susunan", "pemegang", "saham">>})

\* line 175
has_pemegang_saham(text) == PageHas(text, {<<"pemegang", "saham">>, <<"shareholders">>})

\* line 176
has_persentase(text) ==
    PageHas(text, {<<"persentase">>, <<"percentage">>, <<"ownership">>, <<"ownership)">>})

\* (?:PT\s+[A-Za-z]|Masyarakat|Goldwave|Zurich|Muhammad|Public) in the lead
HasHolderMarker(l) ==
    \E i \in 1..Len(l) :
        \/ Lower(l[i]) \in {"masyarakat", "goldwave", "zurich", "muhammad", "public"}
        \/ (Lower(l[i]) = "pt" /\ i < Len(l) /\ IsAlpha(l[i + 1]))

\* where the shortest \d{1,3}[.,]\d{3}[.,\d]+ begun at run i ends: <<run,
\* digits of it consumed>>, or <<0, 0>> when it does not match
BigEnd(t, i) ==
    IF i + 1 > Len(t.runs) THEN <<0, 0>>
    ELSE IF Len(t.runs[i + 1]) >= 4 THEN <<i + 1, 4>>
    ELSE IF Len(t.runs[i + 1]) = 3 /\ i + 2 <= Len(t.runs) THEN <<i + 2, 0>>
    ELSE <<0, 0>>

\* \d{1,2}[,\.]\d{2,4} can begin in run j of t at least one character after e
PctAfter(t, j, e) ==
    /\ j + 1 <= Len(t.runs) /\ Len(t.runs[j + 1]) >= 2
    /\ (j > e[1] \/ (j = e[1] /\ Len(t.runs[j]) - 1 >= e[2] + 1))

\* lines 180-183 on one line: marker .+ large number .+ percentage
LineHasShareholderData(line) ==
    /\ HasHolderMarker(line.lead)
    /\ \E k \in 1..Len(line.nums) : \E i \in 1..Len(line.nums[k].runs) :
          LET e == BigEnd(line.nums[k], i)
          IN  /\ e[1] # 0
              /\ \/ \E j \in 1..Len(line.nums[k].runs) : PctAfter(line.nums[k], j, e)
                 \/ \E k2 \in (k + 1)..Len(line.nums) : \E j \in 1..Len(line.nums[k2].runs) :
                        PctAfter(line.nums[k2], j, <<0, 0>>)

has_shareholder_data(text) == \E n \in 1..Len(text) : LineHasShareholderData(text[n])

\* lines 187-194 with the table-of-contents test left out
PageTypeNoTocSkip(text) ==
    IF is_sales_page(text) THEN "none"
    ELSE IF has_modal_saham_section(text) /\ has_pemegang_saham(text) THEN "modal_saham"
    ELSE IF has_susunan_in_page(text) /\ has_shareholder_data(text) THEN "susunan"
    ELSE IF has_shareholder_data(text) /\ has_pemegang_saham(text) /\ has_persentase(text)
    THEN "susunan"
    ELSE "none"

\* lines 149-194: the kind a page is selected as ("none": not selected)
PageType(text) ==
    IF is_toc(text) \/ is_sales_page(text) THEN "none"
    ELSE IF has_modal_saham_section(text) /\ has_pemegang_saham(text) THEN "modal_saham"
    ELSE IF has_susunan_in_page(text) /\ has_shareholder_data(text) THEN "susunan"
    ELSE IF has_shareholder_data(text) /\ has_pemegang_saham(text) /\ has_persentase(text)
    THEN "susunan"
    ELSE "none"

\* lines 208-211 with the generic parser called for every page type
ParsePageGenericOnly(text, page_type) ==
    parse_shareholders_multidate(text, detect_dates(text))

\* lines 204-211: the records of one selected page
ParsePage(text, page_type) ==
    IF page_type = "modal_saham" THEN parse_modal_saham_format(text, detect_dates(text))
    ELSE parse_shareholders_multidate(text, detect_dates(text))

\* line 219
Key(sh) == <<sh.tanggal, sh.pemegang_saham, sh.jumlah_saham>>

\* --------------------------------------------------------------- the sort
RECURSIVE StrCodes(_)
\* the code points of " ".join(words)
StrCodes(ws) ==
    IF ws = <<>> THEN <<>>
    ELSE IF Len(ws) = 1 THEN Codes(ws[1])
    ELSE Codes(Head(ws)) \o <<32>> \o StrCodes(Tail(ws))

RECURSIVE SeqLess(_, _)
\* a < b for two strings given by their code points
SeqLess(a, b) ==
    IF b = <<>> THEN FALSE
    ELSE IF a = <<>> THEN TRUE
    ELSE IF Head(a) # Head(b) THEN Head(a) < Head(b)
    ELSE SeqLess(Tail(a), Tail(b))

\* key(x) < key(y) for key = lambda x: (x['tanggal'], -x['persentase'])
KeyLess(x, y) ==
    \/ SeqLess(StrCodes(x.tanggal), StrCodes(y.tanggal))
    \/ (x.tanggal = y.tanggal /\ -x.persentase < -y.persentase)

RECURSIVE InsertDesc(_, _)
\* x put after the elements that do not sort below it (the sort is stable)
InsertDesc(sorted, x) ==
    IF sorted = <<>> THEN <<x>>
    ELSE IF KeyLess(Head(sorted), x) THEN <<x>> \o sorted
    ELSE <<Head(sorted)>> \o InsertDesc(Tail(sorted), x)

RECURSIVE SortDesc(_)
\* line 225: list.sort(key=..., reverse=True)
SortDesc(l) == IF l = <<>> THEN <<>> ELSE InsertDesc(SortDesc(SubSeq(l, 1, Len(l) - 1)), l[Len(l)])

\* ------------------------------------------------- the whole of one document
RECURSIVE SelectPages(_, _)
\* lines 149-194: the (page_num, page_type) pairs, page_num counted from 1
SelectPages(pdf, n) ==
    IF n > Len(pdf) THEN <<>>
    ELSE (IF PageType(pdf[n]) # "none" THEN <<<<n, PageType(pdf[n])>>>> ELSE <<>>)
         \o SelectPages(pdf, n + 1)

RECURSIVE ParsePages(_, _)
\* lines 200-213
ParsePages(pdf, pages) ==
    IF pages = <<>> THEN <<>>
    ELSE ParsePage(pdf[Head(pages)[1]], Head(pages)[2]) \o ParsePages(pdf, Tail(pages))

\* line 220 with a test that never finds the key
NeverSeen(seen, sh) == TRUE

\* line 220: key not in seen
NotSeen(seen, sh) == Key(sh) \notin seen

\* lines 219-222 with the newest record of a key replacing the kept one
DedupStepKeepLast(unique, seen, sh) ==
    IF Key(sh) \notin seen THEN [unique |-> Append(unique, sh), seen |-> seen \cup {Key(sh)}]
    ELSE [unique |-> [i \in 1..Len(unique) |->
                         IF Key(unique[i]) = Key(sh) THEN sh ELSE unique[i]],
          seen |-> seen]

\* lines 219-222: one iteration of the duplicate removal
DedupStep(unique, seen, sh) ==
    IF NotSeen(seen, sh) THEN [unique |-> Append(unique, sh), seen |-> seen \cup {Key(sh)}]
    ELSE [unique |-> unique, seen |-> seen]

RECURSIVE DedupFrom(_, _, _)
DedupFrom(unique, seen, rest) ==
    IF rest = <<>> THEN unique
    ELSE LET st == DedupStep(unique, seen, Head(rest))
         IN  DedupFrom(st.unique, st.seen, Tail(rest))

\* lines 216-222
Dedup(all) == DedupFrom(<<>>, {}, all)

\* lines 143-227 (the document read without error)
extract_shareholders_from_pdf(pdf) ==
    IF SelectPages(pdf, 1) = <<>> THEN <<>>
    ELSE SortDesc(Dedup(ParsePages(pdf, SelectPages(pdf, 1))))

\* ============================================================ the inputs
H(ws) == Line(ws, <<>>, <<>>)
Share(runs) == Tok(runs, ".", FALSE)
Pct(i, d) == Tok(<<i, d>>, ",", TRUE)

LToc      == H(<<"DAFTAR", "ISI">>)
LSales    == H(<<"Penjualan", "Neto">>)
LModal    == H(<<"16.", "Modal", "Saham">>)
LModalCont == H(<<"16.", "Modal", "Saham", "(Lanjutan)">>)
LSusunan  == H(<<"Susunan", "Pemegang", "Saham">>)
LPemegang == H(<<"Pemegang", "Saham">>)
LPersentase == H(<<"Persentase">>)
LNote     == H(<<"Catatan", "Halaman">>)
LSep25    == H(<<"30", "September", "2025">>)
LMar25    == H(<<"31", "Maret", "2025">>)
LDes24    == H(<<"31", "Desember", "2024">>)

\* "PT Abc Def 10.093.210 24,81%"
RowA  == Line(<<"PT", "Abc", "Def">>, <<Share(<<<<1, 0>>, <<0, 9, 3>>, <<2, 1, 0>>>>), Pct(<<2, 4>>, <<8, 1>>)>>, <<>>)
\* "PT Abc Def 10.093.210 24,8190%"
RowA4 == Line(<<"PT", "Abc", "Def">>, <<Share(<<<<1, 0>>, <<0, 9, 3>>, <<2, 1, 0>>>>), Pct(<<2, 4>>, <<8, 1, 9, 0>>)>>, <<>>)
\* "PT Abc Def 10,093,210 24.81 504,660,526 PT Abc Def"
RowAc == Line(<<"PT", "Abc", "Def">>,
              <<Tok(<<<<1, 0>>, <<0, 9, 3>>, <<2, 1, 0>>>>, ",", FALSE), Tok(<<<<2, 4>>, <<8, 1>>>>, ".", FALSE),
                Tok(<<<<5, 0, 4>>, <<6, 6, 0>>, <<5, 2, 6>>>>, ",", FALSE)>>, <<"PT", "Abc", "Def">>)
\* "Masyarakat 5.000.000 12,50%"
RowB  == Line(<<"Masyarakat">>, <<Share(<<<<5>>, <<0, 0, 0>>, <<0, 0, 0>>>>), Pct(<<1, 2>>, <<5, 0>>)>>, <<>>)
\* "Muhammad Arif 10.000 0,0001%"
RowM  == Line(<<"Muhammad", "Arif">>, <<Share(<<<<1, 0>>, <<0, 0, 0>>>>), Pct(<<0>>, <<0, 0, 0, 1>>)>>, <<>>)
\* "PT Abc Ghi 10.000 0,00%"
RowZ  == Line(<<"PT", "Abc", "Ghi">>, <<Share(<<<<1, 0>>, <<0, 0, 0>>>>), Pct(<<0>>, <<0, 0>>)>>, <<>>)
\* "PT Abc Ghi 10.000 150,00%"
RowX  == Line(<<"PT", "Abc", "Ghi">>, <<Share(<<<<1, 0>>, <<0, 0, 0>>>>), Pct(<<1, 5, 0>>, <<0, 0>>)>>, <<>>)

\* the page texts documents are made of
PageCatalogue ==
    { <<LModal, LPemegang, LSep25, RowA4, RowB, LMar25, RowA, RowM>>,
      <<LModal, LPemegang, LDes24, RowAc, RowB, RowAc>>,
      <<LModal, LPemegang, RowB, RowZ>>,
      <<LSusunan, LPersentase, LSep25, RowA4, RowB, RowX>>,
      <<LSusunan, RowA, RowM>>,
      <<LToc, LModal, LPemegang, LSusunan, LPersentase, LSep25, RowA, RowB>>,
      <<LSales, LModal, LPemegang, LSusunan, LPersentase, LMar25, RowA, RowM>>,
      <<LModalCont, LPemegang, LMar25, RowB>>,
      <<LModalCont, LSusunan, LPersentase, LMar25, RowA, RowB>>,
      <<LModal, LPemegang, LSusunan, LPersentase, LDes24, RowAc, RowA, RowB>>,
      <<LNote, RowX>> }

RECURSIVE SeqsUpTo(_, _)
\* the sequences of at most n elements of S
SeqsUpTo(S, n) ==
    IF n = 0 THEN {<<>>}
    ELSE LET shorter == SeqsUpTo(S, n - 1)
         IN  shorter \cup {Append(q, e) : q \in {q \in shorter : Len(q) = n - 1}, e \in S}

Documents == SeqsUpTo(PageCatalogue, MaxPages)

\* ===================================================== the state machines
VARIABLES
    pc,                  \* where the running function stands
    pdf,                 \* the page texts of the open document
    page_num,            \* the page the selection loop looks at next
    shareholder_pages,   \* the (page_num, parser) pairs selected so far
    sel,                 \* the selected page the extraction loop parses next
    all_shareholders,    \* the records of the pages parsed so far
    origin,              \* history: the page each of all_shareholders is from
    sh_i,                \* the record the duplicate removal looks at next
    seen,
    unique_shareholders,
    ret,                 \* the list extract_shareholders_from_pdf returns
    row,                 \* the [line, name_prefix] a row parser is given
    row_result,          \* [strategy, out] once a row parser has returned
    cache,               \* PDF_CACHE_DIR: file name -> what the file holds
    file_names,          \* the argument of extract_from_files
    file_i,              \* the file name its loop looks at next
    all_results,
    batch_ret,           \* what extract_from_files returns
    page_text,                \* the page page_text a line-scan parser is called with
    parser,           \* the strategy the page was selected for
    line_i,              \* the line the scan loop looks at next
    cur_date,
    pending,
    found,        \* the records of the running call
    emits,               \* history: the records each scanned line appended
    left_pending,        \* history: pending when the last call returned
    calls,               \* the parser calls made so far
    dup_name,            \* a name written twice: [w, again, rest]
    clean_ret,           \* what clean_shareholder_name_v2 returns for it
    cache_present,       \* PDF_CACHE_DIR exists
    cache_files,         \* PDF_CACHE_DIR: file name -> the body written to it
    dl_urls,             \* the argument of download_pdfs
    url_i,               \* the URL its loop looks at next
    downloaded,
    errors,
    written,             \* history: the [url, body] behind each entry of downloaded
    dl_ret,              \* what download_pdfs returns
    fresh,               \* history: the names downloaded since the last clear_cache
    ops,                 \* the calls made so far
    asked,               \* the argument of the last extract_from_files
    answer,              \* what it returned
    active_connections,  \* manager.active_connections
    ws_state,            \* where the handler of each websocket stands
    ws_ticker,           \* the ticker each websocket was opened for
    iter_open,           \* history: is_idx_market_open() when each loop body last began
    last_sent,           \* history: the last message sent on each websocket
    now,                 \* the Jakarta wall clock: [day, minutes]
    bad_remove           \* history: disconnect was called for a websocket not in the list

docVars == <<pdf, page_num, shareholder_pages, sel, all_shareholders, origin, sh_i, seen,
             unique_shareholders, ret>>
rowVars == <<row, row_result>>
batchVars == <<cache, file_names, file_i, all_results, batch_ret>>
scanVars == <<page_text, parser, line_i, cur_date, pending, found, emits,
              left_pending, calls>>
nameVars == <<dup_name, clean_ret>>
cacheVars == <<cache_present, cache_files, dl_urls, url_i, downloaded, errors, written,
               dl_ret, fresh, ops, asked, answer>>
wsVars == <<active_connections, ws_state, ws_ticker, iter_open, last_sent, now, bad_remove>>
vars == <<pc, docVars, rowVars, batchVars, scanVars, nameVars, cacheVars, wsVars>>

NoDoc == /\ pdf = <<>> /\ page_num = 1 /\ shareholder_pages = <<>> /\ sel = 1
         /\ all_shareholders = <<>> /\ origin = <<>> /\ sh_i = 1 /\ seen = {}
         /\ unique_shareholders = <<>> /\ ret = <<>>
NoRow == row = [line |-> H(<<>>), name_prefix |-> <<>>] /\ row_result = [strategy |-> "", out |-> None, format |-> <<>>]
NoBatch == /\ cache = <<>> /\ file_names = <<>> /\ file_i = 1 /\ all_results = <<>>
           /\ batch_ret = [results |-> <<>>, total_files |-> 0]
NoScan == /\ page_text = <<>> /\ parser = "" /\ line_i = 1 /\ cur_date = <<>>
          /\ pending = <<>> /\ found = <<>> /\ emits = <<>>
          /\ left_pending = <<>> /\ calls = 0
NoName == dup_name = [w |-> <<>>, again |-> <<>>, rest |-> <<>>] /\ clean_ret = <<>>
NoCache == /\ cache_present = FALSE /\ cache_files = <<>> /\ dl_urls = <<>> /\ url_i = 1
           /\ downloaded = <<>> /\ errors = <<>> /\ written = <<>>
           /\ dl_ret = [downloaded |-> <<>>, errors |-> <<>>, total_downloaded |-> 0]
           /\ fresh = {} /\ ops = 0 /\ asked = <<>>
           /\ answer = [results |-> <<>>, total_files |-> 0]
NoWs == /\ active_connections = <<>> /\ ws_state = <<>> /\ ws_ticker = <<>> /\ iter_open = <<>>
        /\ last_sent = <<>> /\ now = [day |-> 0, minutes |-> 0] /\ bad_remove = FALSE

\* ------------------------------ extract_shareholders_from_pdf, step by step
Init ==
    /\ pdf \in Documents
    /\ pc = IF pdf = <<>> THEN "selected" ELSE "classify"
    /\ page_num = 1 /\ shareholder_pages = <<>> /\ sel = 1
    /\ all_shareholders = <<>> /\ origin = <<>> /\ sh_i = 1 /\ seen = {}
    /\ unique_shareholders = <<>> /\ ret = <<>>
    /\ NoRow /\ NoBatch /\ NoScan /\ NoName /\ NoCache /\ NoWs

\* lines 149-194: one page of the selection loop
ClassifyPage ==
    /\ pc = "classify"
    /\ shareholder_pages' =
          IF PageType(pdf[page_num]) # "none"
          THEN Append(shareholder_pages, <<page_num, PageType(pdf[page_num])>>)
          ELSE shareholder_pages
    /\ page_num' = page_num + 1
    /\ pc' = IF page_num = Len(pdf) THEN "selected" ELSE "classify"
    /\ UNCHANGED <<pdf, sel, all_shareholders, origin, sh_i, seen, unique_shareholders, ret>>
    /\ UNCHANGED <<rowVars, batchVars, scanVars, nameVars, cacheVars, wsVars>>

\* lines 196-197
ReturnEmpty ==
    /\ pc = "selected" /\ shareholder_pages = <<>>
    /\ ret' = <<>>
    /\ pc' = "done"
    /\ UNCHANGED <<pdf, page_num, shareholder_pages, sel, all_shareholders, origin, sh_i, seen,
                   unique_shareholders>>
    /\ UNCHANGED <<rowVars, batchVars, scanVars, nameVars, cacheVars, wsVars>>

\* lines 200-213: one selected page parsed
ExtractPage ==
    /\ pc = "selected" /\ sel <= Len(shareholder_pages)
    /\ LET n == shareholder_pages[sel][1]
           shareholders == ParsePage(pdf[n], shareholder_pages[sel][2])
       IN  /\ all_shareholders' = all_shareholders \o shareholders
           /\ origin' = origin \o [i \in 1..Len(shareholders) |-> n]
           /\ pc' = IF sel < Len(shareholder_pages) THEN "selected"
                    ELSE IF all_shareholders \o shareholders = <<>> THEN "sort"
                    ELSE "dedup"
    /\ sel' = sel + 1
    /\ UNCHANGED <<pdf, page_num, shareholder_pages, sh_i, seen, unique_shareholders, ret>>
    /\ UNCHANGED <<rowVars, batchVars, scanVars, nameVars, cacheVars, wsVars>>

\* lines 218-222: one record of the duplicate removal
DedupRecord ==
    /\ pc = "dedup"
    /\ LET st == DedupStep(unique_shareholders, seen, all_shareholders[sh_i])
       IN  unique_shareholders' = st.unique /\ seen' = st.seen
    /\ sh_i' = sh_i + 1
    /\ pc' = IF sh_i = Len(all_shareholders) THEN "sort" ELSE "dedup"
    /\ UNCHANGED <<pdf, page_num, shareholder_pages, sel, all_shareholders, origin, ret>>
    /\ UNCHANGED <<rowVars, batchVars, scanVars, nameVars, cacheVars, wsVars>>

\* lines 225-227: the sort and the return
SortAndReturn ==
    /\ pc = "sort"
    /\ ret' = SortDesc(unique_shareholders)
    /\ pc' = "done"
    /\ UNCHANGED <<pdf, page_num, shareholder_pages, sel, all_shareholders, origin, sh_i, seen,
                   unique_shareholders>>
    /\ UNCHANGED <<rowVars, batchVars, scanVars, nameVars, cacheVars, wsVars>>

Next == ClassifyPage \/ ReturnEmpty \/ ExtractPage \/ DedupRecord \/ SortAndReturn

Spec == Init /\ [][Next]_vars

\* ------------------------------------------------ the row parsers, applied
RowLeads == {<<"PT", "Abc", "Def">>, <<"Muhammad", "Arif">>, <<"Nusantara">>, <<"Masyarakat">>}
RowShares == {Tok(<<<<1, 0>>, <<0, 0, 0>>>>, ".", FALSE),
              Tok(<<<<1, 0>>, <<0, 0, 0>>>>, ",", FALSE),
              Tok(<<<<5>>, <<3, 1, 1>>, <<4, 4, 0>>, <<2, 0, 0>>>>, ".", FALSE),
              Tok(<<<<1, 0>>, <<0, 9, 3>>, <<2, 1, 0>>>>, ",", FALSE)}
PctInts == {<<0>>, <<6, 9>>, <<1, 0, 0>>, <<1, 5, 0>>}
PctDecs == {<<0, 0>>, <<0, 1>>, <<1, 3>>, <<0, 0, 0>>, <<0, 0, 6>>, <<1, 2, 9>>,
            <<0, 0, 0, 1>>, <<0, 7, 9, 0>>}
PctToks == {Tok(<<i, d>>, sp, sg) : i \in PctInts, d \in PctDecs, sp \in {",", "."}, sg \in BOOLEAN}
RowPrefixes == {<<>>, <<"PT", "Abc", "Ghi">>}
\* rows with grouped numbers of both styles:
\* "PT Abc Def 10,093,210 24.81 504.660.526",
\* "PT Abc Def 10.093.210 24,81 5,311,440,200",
\* "PT Abc Def 10.093.210 24,81 10,093,210"
RowMixed ==
    {Line(<<"PT", "Abc", "Def">>,
          <<Tok(<<<<1, 0>>, <<0, 9, 3>>, <<2, 1, 0>>>>, ",", FALSE), Tok(<<<<2, 4>>, <<8, 1>>>>, ".", FALSE),
            Tok(<<<<5, 0, 4>>, <<6, 6, 0>>, <<5, 2, 6>>>>, ".", FALSE)>>, <<>>),
     Line(<<"PT", "Abc", "Def">>,
          <<Tok(<<<<1, 0>>, <<0, 9, 3>>, <<2, 1, 0>>>>, ".", FALSE), Tok(<<<<2, 4>>, <<8, 1>>>>, ",", FALSE),
            Tok(<<<<5>>, <<3, 1, 1>>, <<4, 4, 0>>, <<2, 0, 0>>>>, ",", FALSE)>>, <<>>),
     Line(<<"PT", "Abc", "Def">>,
          <<Tok(<<<<1, 0>>, <<0, 9, 3>>, <<2, 1, 0>>>>, ".", FALSE), Tok(<<<<2, 4>>, <<8, 1>>>>, ",", FALSE),
            Tok(<<<<1, 0>>, <<0, 9, 3>>, <<2, 1, 0>>>>, ",", FALSE)>>, <<>>)}
\* rows led by a name that holds a word of skip_keywords:
\* "PT Asuransi Abc 10.093.210 24,81%"
RowListed ==
    {Line(<<"PT", "Asuransi", "Abc">>,
          <<Tok(<<<<1, 0>>, <<0, 9, 3>>, <<2, 1, 0>>>>, ".", FALSE), Tok(<<<<2, 4>>, <<8, 1>>>>, ",", TRUE)>>, <<>>)}
\* rows whose first grouped number is below 1,000, alone or before a share
\* count: "PT Abc Def 0.500 24,81%", "Masyarakat 0,000,999 24.81%",
\* "PT Abc Def 0.500 10.093.210 24,81%"
RowSmall ==
    {Line(l, <<Tok(n, sp, FALSE)>>
             \o (IF more THEN <<Tok(<<<<1, 0>>, <<0, 9, 3>>, <<2, 1, 0>>>>, sp, FALSE)>> ELSE <<>>)
             \o <<Tok(<<<<2, 4>>, <<8, 1>>>>, IF sp = "." THEN "," ELSE ".", TRUE)>>, <<>>) :
        l \in {<<"PT", "Abc", "Def">>, <<"Masyarakat">>},
        n \in {<<<<0>>, <<5, 0, 0>>>>, <<<<0>>, <<0, 0, 0>>, <<9, 9, 9>>>>},
        sp \in {".", ","},
        more \in BOOLEAN}
RowInputs == {[line |-> Line(l, <<sh, p>>, <<>>), name_prefix |-> pf] :
                 l \in RowLeads, sh \in RowShares, p \in PctToks, pf \in RowPrefixes}
             \cup {[line |-> l, name_prefix |-> <<>>] : l \in RowMixed \cup RowListed \cup RowSmall}
RowDate == <<"30", "Juni", "2025">>

RowInit ==
    /\ pc = "row"
    /\ row \in RowInputs
    /\ row_result = [strategy |-> "", out |-> None, format |-> <<>>]
    /\ NoDoc /\ NoBatch /\ NoScan /\ NoName /\ NoCache /\ NoWs

\* line 328: the structured-section strategy reads the row
ModalRow ==
    /\ pc = "row"
    /\ row_result' = [strategy |-> "modal_saham",
                      out |-> extract_modal_saham_row_v2(row.line, RowDate, row.name_prefix),
                      format |-> IF ModalSkip(row.line) THEN <<>>
                                 ELSE IF ~HasValidStart(row.line) /\ row.name_prefix = <<>> THEN <<>>
                                 ELSE IF ~ResolveFormat(row.line).ok THEN <<>>
                                 ELSE <<ResolveFormat(row.line).thousand_sep,
                                        ResolveFormat(row.line).decimal_sep>>]
    /\ pc' = "parsed"
    /\ UNCHANGED <<row, docVars, batchVars, scanVars, nameVars, cacheVars, wsVars>>

\* line 902: the generic strategy reads the row
GenericRow ==
    /\ pc = "row"
    /\ row_result' = [strategy |-> "susunan",
                      out |-> extract_shareholder_single_row_v2(row.line, RowDate, row.name_prefix),
                      format |-> <<>>]
    /\ pc' = "parsed"
    /\ UNCHANGED <<row, docVars, batchVars, scanVars, nameVars, cacheVars, wsVars>>

RowNext == ModalRow \/ GenericRow

SpecRow == RowInit /\ [][RowNext]_vars

\* --------------------------------------------------------- extract_from_files
Absent == [kind |-> "absent"]
Raises(exc, msg) == [kind |-> "raises", exc |-> exc, msg |-> msg]
Pdf(pages) == [kind |-> "pdf", pages |-> pages]

FileNames == {"A.pdf", "B.pdf", "missing.pdf"}

\* what a cache file may hold: nothing, something pdfplumber cannot open or
\* read, or a document (with records, with a selected page but no valid
\* record, with no selected page)
FileContents ==
    { Absent,
      Raises("PDFSyntaxError", "No /Root object! - Is this really a PDF?"),
      Raises("IsADirectoryError", "Is a directory"),
      Pdf(<< <<LModal, LPemegang, LSep25, RowA4, RowB, LMar25, RowA, RowM>> >>),
      Pdf(<< <<LModal, LPemegang, LSep25, RowX>> >>),
      Pdf(<< <<LNote, RowX>> >>) }

\* lines 737-741
MissingEntry(file_name) ==
    [file_name |-> file_name, error |-> "File not found", shareholders |-> <<>>]

\* lines 746-750 with an empty list reported as an error
SuccessEntryErrorOnEmpty(file_name, shareholders) ==
    IF shareholders = <<>>
    THEN [file_name |-> file_name, error |-> "No data", shareholders |-> <<>>]
    ELSE [file_name |-> file_name, shareholders |-> shareholders, total |-> Len(shareholders)]

\* lines 746-750
SuccessEntry(file_name, shareholders) ==
    [file_name |-> file_name, shareholders |-> shareholders, total |-> Len(shareholders)]

\* lines 752-756
ErrorEntry(file_name, msg) ==
    [file_name |-> file_name, error |-> msg, shareholders |-> <<>>]

\* line 751 catching OSError only
CatchesOSErrorOnly(exc) == exc \in {"IsADirectoryError"}

\* line 751: except Exception (every class a failed read raises derives from it)
Catches(exc) == exc \in {"PDFSyntaxError", "IsADirectoryError"}

\* line 742 as `break`
BreakAfterMissing(i, n) == n + 1

\* line 742: continue
ContinueAfterMissing(i, n) == i + 1

\* the entry of one file name, lines 733-756
EntryFor(files, file_name) ==
    IF files[file_name].kind = "absent" THEN MissingEntry(file_name)
    ELSE IF files[file_name].kind = "pdf"
    THEN SuccessEntry(file_name, extract_shareholders_from_pdf(files[file_name].pages))
    ELSE ErrorEntry(file_name, files[file_name].msg)

\* lines 729-761 as a function of the cache and the argument
extract_from_files(files, names) ==
    [results |-> [i \in 1..Len(names) |-> EntryFor(files, names[i])],
     total_files |-> Len(names)]

BatchInit ==
    /\ pc = "batch"
    /\ cache \in [FileNames -> FileContents]
    /\ file_names \in SeqsUpTo(FileNames, MaxFiles)
    /\ file_i = 1 /\ all_results = <<>>
    /\ batch_ret = [results |-> <<>>, total_files |-> 0]
    /\ NoDoc /\ NoRow /\ NoScan /\ NoName /\ NoCache /\ NoWs

\* lines 736-742
FileNotFound ==
    /\ pc = "batch" /\ file_i <= Len(file_names)
    /\ cache[file_names[file_i]].kind = "absent"
    /\ all_results' = Append(all_results, MissingEntry(file_names[file_i]))
    /\ file_i' = ContinueAfterMissing(file_i, Len(file_names))
    /\ UNCHANGED <<pc, cache, file_names, batch_ret, docVars, rowVars, scanVars, nameVars, cacheVars, wsVars>>

\* lines 744-750
ExtractSucceeds ==
    /\ pc = "batch" /\ file_i <= Len(file_names)
    /\ cache[file_names[file_i]].kind = "pdf"
    /\ all_results' = Append(all_results,
          SuccessEntry(file_names[file_i],
                       extract_shareholders_from_pdf(cache[file_names[file_i]].pages)))
    /\ file_i' = file_i + 1
    /\ UNCHANGED <<pc, cache, file_names, batch_ret, docVars, rowVars, scanVars, nameVars, cacheVars, wsVars>>

\* lines 744-745 raising, then 751-756
ExtractRaises ==
    /\ pc = "batch" /\ file_i <= Len(file_names)
    /\ cache[file_names[file_i]].kind = "raises"
    /\ IF Catches(cache[file_names[file_i]].exc)
       THEN /\ all_results' = Append(all_results,
                   ErrorEntry(file_names[file_i], cache[file_names[file_i]].msg))
            /\ file_i' = file_i + 1
            /\ pc' = pc
       ELSE /\ pc' = "raised"
            /\ UNCHANGED <<all_results, file_i>>
    /\ UNCHANGED <<cache, file_names, batch_ret, docVars, rowVars, scanVars, nameVars, cacheVars, wsVars>>

\* lines 758-761
ReturnBatch ==
    /\ pc = "batch" /\ file_i > Len(file_names)
    /\ batch_ret' = [results |-> all_results, total_files |-> Len(all_results)]
    /\ pc' = "returned"
    /\ UNCHANGED <<cache, file_names, file_i, all_results, docVars, rowVars, scanVars, nameVars, cacheVars, wsVars>>

BatchNext == FileNotFound \/ ExtractSucceeds \/ ExtractRaises \/ ReturnBatch

SpecBatch == BatchInit /\ [][BatchNext]_vars

\* ------------------------------------------------ the line scans, step by step
LBlank  == H(<<>>)
LDes25  == H(<<"31", "Desember", "2025">>)
LPtName == H(<<"PT", "Abc", "Ghi">>)
LName   == H(<<"Nusantara">>)
\* "Nusantara 5.311.440.200 69,0790%"
RowN    == Line(<<"Nusantara">>, <<Share(<<<<5>>, <<3, 1, 1>>, <<4, 4, 0>>, <<2, 0, 0>>>>), Pct(<<6, 9>>, <<0, 7, 9, 0>>)>>, <<>>)

\* "Jumlah 15.093.210 100,00%"
RowJ    == Line(<<"Jumlah">>, <<Share(<<<<1, 5>>, <<0, 9, 3>>, <<2, 1, 0>>>>), Pct(<<1, 0, 0>>, <<0, 0>>)>>, <<>>)

ScanLines == {LBlank, LSep25, LDes25, LPemegang, LPtName, LName, RowN, RowB, RowA, RowM, RowJ}

\* page.extract_text() or "" split at '\n' has at least one line
ScanPages == SeqsUpTo(ScanLines, MaxLines) \ {<<>>}

\* the pages that may follow the first one
FollowPages == {<<RowN>>, <<LName, RowA>>}

ScanInit ==
    /\ pc = "call"
    /\ NoScan /\ NoDoc /\ NoRow /\ NoBatch /\ NoName /\ NoCache /\ NoWs

\* lines 204-211 calling a parser; lines 243-265 and 815-849
CallParser ==
    /\ pc = "call" /\ calls < MaxCalls
    /\ page_text' \in (IF calls = 0 THEN ScanPages ELSE FollowPages)
    /\ parser' \in {"modal_saham", "susunan"}
    /\ cur_date' = (IF detect_dates(page_text') # <<>> THEN detect_dates(page_text')[1] ELSE Unknown)
    /\ pending' = <<>>
    /\ found' = <<>>
    /\ line_i' = 1 /\ emits' = <<>>
    /\ calls' = calls + 1
    /\ pc' = "scan"
    /\ UNCHANGED <<left_pending, docVars, rowVars, batchVars, nameVars, cacheVars, wsVars>>

\* the scan variables after one more line
Scanned(st) ==
    /\ cur_date' = st.current_date
    /\ pending' = st.pending_name
    /\ found' = st.shareholders
    /\ emits' = Append(emits, SubSeq(st.shareholders, Len(found) + 1,
                                     Len(st.shareholders)))
    /\ line_i' = line_i + 1
    /\ UNCHANGED <<pc, page_text, parser, left_pending, calls, docVars, rowVars, batchVars, nameVars, cacheVars, wsVars>>

\* lines 267-333: one line of the structured-section scan
ModalLine ==
    /\ pc = "scan" /\ parser = "modal_saham" /\ line_i <= Len(page_text)
    /\ Scanned(ModalLineStep(ScanState(cur_date, pending, found), page_text[line_i]))

\* lines 851-912: one line of the generic scan
GenericLine ==
    /\ pc = "scan" /\ parser = "susunan" /\ line_i <= Len(page_text)
    /\ Scanned(GenericLineStep(ScanState(cur_date, pending, found), page_text[line_i]))

\* lines 335 and 914: the call returns and its locals are gone
ReturnShareholders ==
    /\ pc = "scan" /\ line_i > Len(page_text)
    /\ left_pending' = pending
    /\ pc' = IF calls < MaxCalls THEN "call" ELSE "end"
    /\ UNCHANGED <<page_text, parser, line_i, cur_date, pending, found, emits,
                   calls, docVars, rowVars, batchVars, nameVars, cacheVars, wsVars>>

ScanNext == CallParser \/ ModalLine \/ GenericLine \/ ReturnShareholders

SpecScan == ScanInit /\ [][ScanNext]_vars

\* ------------------------------------------- clean_shareholder_name_v2, applied
NameWords == {"PT", "Abc", "Def", "Daftar", "Ltd.", "Nusantara"}

\* the same words as another rendering may capitalise them
OtherCase(ws) == [i \in 1..Len(ws) |-> IF ws[i] = "Daftar" THEN "DAFTAR" ELSE ws[i]]

\* word sequences of two or more different words, written twice (the second
\* time possibly in other case), then at most two more words
DupNames ==
    {[w |-> w, again |-> a, rest |-> r] :
        w \in {q \in SeqsUpTo(NameWords, MaxDup) :
                  Len(q) >= 2 /\ \A i, j \in 1..Len(q) : q[i] = q[j] => i = j},
        a \in {0, 1}, r \in SeqsUpTo({"Nusantara", "Def"}, 2)}

NameInit ==
    /\ pc = "name"
    /\ \E d \in DupNames :
          dup_name = [w |-> d.w, again |-> IF d.again = 0 THEN d.w ELSE OtherCase(d.w),
                      rest |-> d.rest]
    /\ clean_ret = <<>>
    /\ NoDoc /\ NoRow /\ NoBatch /\ NoScan /\ NoCache /\ NoWs

\* line 532: the cleaner is given the name
CleanName ==
    /\ pc = "name"
    /\ clean_ret' = clean_shareholder_name_v2(dup_name.w \o dup_name.again \o dup_name.rest)
    /\ pc' = "cleaned"
    /\ UNCHANGED <<dup_name, docVars, rowVars, batchVars, scanVars, cacheVars, wsVars>>

NameNext == CleanName

SpecName == NameInit /\ [][NameNext]_vars

\* ------------------------------- download_pdfs, clear_cache, extract_from_files
\* a URL is its path segments: url.split('/') without scheme and host
Urls == {<<"a", "A.pdf">>, <<"b", "A.pdf">>, <<"a", "">>}

\* line 95: url.split('/')[-1]
LastSegment(url) == url[Len(url)]

\* response.content of each URL: what the bytes are to pdfplumber
BodyOf(url) ==
    IF url = <<"a", "A.pdf">> THEN Pdf(<< <<LNote>> >>)
    ELSE Raises("PDFSyntaxError", "No /Root object! - Is this really a PDF?")

\* idx_scraper.get(url): the document, an error page, or an exception
Responses(url) ==
    {[kind |-> "response", status_code |-> 200, content |-> BodyOf(url)],
     [kind |-> "response", status_code |-> 404, content |-> Raises("HTML", "Not Found")],
     [kind |-> "raises", msg |-> "Connection aborted."]}

\* the names a file of the cache directory can have
CacheNames == {"A.pdf"}

\* the file names extract_from_files may be asked for
AskNames == CacheNames \cup {"", ".."}

\* os.path.join(PDF_CACHE_DIR, file_name) names a directory: the cache
\* directory itself for '', the directory that holds it for '..'
IsDirPath(file_name) == file_name \in {"", ".."}

\* line 96: os.path.join(PDF_CACHE_DIR, file_name)
SavePath(file_name) == <<"fatqt_pdf_cache", file_name>>

\* lines 104-108 (the size of the body is not modelled)
DownloadedEntry(file_name) == [file_name |-> file_name, path |-> SavePath(file_name)]

\* lines 110-113 and 115-118
UrlError(url, msg) == [url |-> url, error |-> msg]

\* what os.path.exists and pdfplumber.open see at
\* os.path.join(PDF_CACHE_DIR, n): nothing without the cache directory, a
\* directory for '' and '..', else the file of that name
CacheView(present, dir) ==
    [n \in AskNames |->
        IF ~present THEN Absent
        ELSE IF IsDirPath(n) THEN Raises("IsADirectoryError", "Is a directory")
        ELSE dir[n]]

EmptyDir == [n \in CacheNames |-> Absent]

\* no call of download_pdfs is running or has just returned
NoDownload ==
    /\ dl_urls = <<>> /\ url_i = 1 /\ downloaded = <<>> /\ errors = <<>> /\ written = <<>>
    /\ dl_ret = [downloaded |-> <<>>, errors |-> <<>>, total_downloaded |-> 0]

CacheInit ==
    /\ pc = "idle"
    /\ cache_present \in BOOLEAN
    /\ cache_files = EmptyDir
    /\ NoDownload
    /\ fresh = {} /\ ops = 0 /\ asked = <<>>
    /\ answer = [results |-> <<>>, total_files |-> 0]
    /\ NoDoc /\ NoRow /\ NoBatch /\ NoScan /\ NoName /\ NoWs

\* lines 86-91: download_pdfs is called and makes the directory
StartDownload ==
    /\ pc \in {"idle", "downloaded"} /\ ops < MaxOps
    /\ dl_urls' \in SeqsUpTo(Urls, MaxUrls)
    /\ cache_present' = TRUE
    /\ url_i' = 1 /\ downloaded' = <<>> /\ errors' = <<>> /\ written' = <<>>
    /\ dl_ret' = [downloaded |-> <<>>, errors |-> <<>>, total_downloaded |-> 0]
    /\ asked' = <<>> /\ answer' = [results |-> <<>>, total_files |-> 0]
    /\ ops' = ops + 1
    /\ pc' = "download"
    /\ UNCHANGED <<cache_files, fresh, docVars, rowVars, batchVars, scanVars, nameVars, wsVars>>

\* lines 93-118: one URL fetched; its body written under its last segment
DownloadOne ==
    /\ pc = "download" /\ url_i <= Len(dl_urls)
    /\ LET url == dl_urls[url_i]
           file_name == LastSegment(url)
       IN  \E response \in Responses(url) :
              IF response.kind = "raises"
              THEN /\ errors' = Append(errors, UrlError(url, response.msg))
                   /\ UNCHANGED <<cache_files, downloaded, written, fresh>>
              ELSE IF response.status_code # 200
              THEN /\ errors' = Append(errors, UrlError(url, "HTTP 404"))
                   /\ UNCHANGED <<cache_files, downloaded, written, fresh>>
              ELSE IF IsDirPath(file_name)
              THEN /\ errors' = Append(errors, UrlError(url, "Is a directory"))
                   /\ UNCHANGED <<cache_files, downloaded, written, fresh>>
              ELSE /\ cache_files' = [cache_files EXCEPT ![file_name] = response.content]
                   /\ downloaded' = Append(downloaded, DownloadedEntry(file_name))
                   /\ written' = Append(written, [url |-> url, body |-> response.content])
                   /\ fresh' = fresh \cup {file_name}
                   /\ UNCHANGED errors
    /\ url_i' = url_i + 1
    /\ UNCHANGED <<pc, cache_present, dl_urls, dl_ret, ops, asked, answer,
                   docVars, rowVars, batchVars, scanVars, nameVars, wsVars>>

\* lines 120-124
ReturnDownload ==
    /\ pc = "download" /\ url_i > Len(dl_urls)
    /\ dl_ret' = [downloaded |-> downloaded, errors |-> errors,
                  total_downloaded |-> Len(downloaded)]
    /\ pc' = "downloaded"
    /\ UNCHANGED <<cache_present, cache_files, dl_urls, url_i, downloaded, errors, written,
                   fresh, ops, asked, answer,
                   docVars, rowVars, batchVars, scanVars, nameVars, wsVars>>

\* lines 127-133: the directory, when there is one, is removed and made again
ClearCache ==
    /\ pc \in {"idle", "downloaded"} /\ ops < MaxOps
    /\ cache_files' = IF cache_present THEN EmptyDir ELSE cache_files
    /\ fresh' = {}
    /\ asked' = <<>> /\ answer' = [results |-> <<>>, total_files |-> 0]
    /\ dl_urls' = <<>> /\ url_i' = 1 /\ downloaded' = <<>> /\ errors' = <<>> /\ written' = <<>>
    /\ dl_ret' = [downloaded |-> <<>>, errors |-> <<>>, total_downloaded |-> 0]
    /\ ops' = ops + 1
    /\ pc' = "idle"
    /\ UNCHANGED <<cache_present, docVars, rowVars, batchVars, scanVars, nameVars, wsVars>>

\* lines 729-761 on the cache directory as it is
ExtractFiles ==
    /\ pc \in {"idle", "downloaded"} /\ ops < MaxOps
    /\ asked' \in SeqsUpTo(AskNames, MaxFiles) \ {<<>>}
    /\ answer' = extract_from_files(CacheView(cache_present, cache_files), asked')
    /\ dl_urls' = <<>> /\ url_i' = 1 /\ downloaded' = <<>> /\ errors' = <<>> /\ written' = <<>>
    /\ dl_ret' = [downloaded |-> <<>>, errors |-> <<>>, total_downloaded |-> 0]
    /\ ops' = ops + 1
    /\ pc' = "idle"
    /\ UNCHANGED <<cache_present, cache_files, fresh,
                   docVars, rowVars, batchVars, scanVars, nameVars, wsVars>>

CacheNext == StartDownload \/ DownloadOne \/ ReturnDownload \/ ClearCache \/ ExtractFiles

SpecCache == CacheInit /\ [][CacheNext]_vars

\* --------------------------------------- main.py: the realtime websockets
Sockets == {"w1", "w2"}
Tickers == {"BBCA.JK", "^JKSE", "^JKLQ45", "AAPL"}

\* Jakarta wall-clock instants: weekday() and hour * 60 + minute
Instants == {[day |-> 0, minutes |-> 539], [day |-> 0, minutes |-> 540],
             [day |-> 0, minutes |-> 721], [day |-> 4, minutes |-> 691],
             [day |-> 4, minutes |-> 975], [day |-> 5, minutes |-> 600]}

\* main.py lines 482-519
is_idx_market_open(t) ==
    IF t.day >= 5 THEN FALSE
    ELSE IF t.day <= 3
    THEN \/ (t.minutes >= 9 * 60 /\ t.minutes <= 12 * 60)
         \/ (t.minutes >= 13 * 60 + 30 /\ t.minutes <= 16 * 60 + 15)
    ELSE IF t.day = 4
    THEN \/ (t.minutes >= 9 * 60 /\ t.minutes <= 11 * 60 + 30)
         \/ (t.minutes >= 14 * 60 /\ t.minutes <= 16 * 60 + 15)
    ELSE FALSE

\* main.py line 527: ticker.endswith('.JK') or ticker == '^JKSE'
is_idx_ticker(ticker) == ticker \in {"BBCA.JK"} \/ ticker = "^JKSE"

\* main.py lines 556 and 558: WebSocketDisconnect and the classes derived from
\* Exception are caught; asyncio.CancelledError derives from BaseException
AwaitRaises == {"WebSocketDisconnect", "RuntimeError", "CancelledError"}
HandlerCatches(exc) == exc \in {"WebSocketDisconnect", "RuntimeError"}

RECURSIVE RemoveFirst(_, _)
\* list.remove(x) for x in the list
RemoveFirst(l, x) ==
    IF l = <<>> THEN <<>>
    ELSE IF Head(l) = x THEN Tail(l) ELSE <<Head(l)>> \o RemoveFirst(Tail(l), x)

\* main.py lines 55-56: manager.disconnect(websocket), in a handler that
\* goes on to return
Disconnect(w) ==
    /\ active_connections' = RemoveFirst(active_connections, w)
    /\ bad_remove' = (bad_remove \/ \A i \in 1..Len(active_connections) : active_connections[i] # w)
    /\ ws_state' = [ws_state EXCEPT ![w] = "returned"]

WsInit ==
    /\ pc = "serve"
    /\ active_connections = <<>>
    /\ ws_state = [w \in Sockets |-> "new"]
    /\ ws_ticker = [w \in Sockets |-> ""]
    /\ iter_open = [w \in Sockets |-> FALSE]
    /\ last_sent = [w \in Sockets |-> <<>>]
    /\ now \in Instants
    /\ bad_remove = FALSE
    /\ NoDoc /\ NoRow /\ NoBatch /\ NoScan /\ NoName /\ NoCache

\* main.py lines 524 and 51-53: the websocket is accepted and listed
Connect(w) ==
    /\ pc = "serve"
    /\ ws_state[w] = "new"
    /\ \E ticker \in Tickers : ws_ticker' = [ws_ticker EXCEPT ![w] = ticker]
    /\ active_connections' = Append(active_connections, w)
    /\ ws_state' = [ws_state EXCEPT ![w] = "loop"]
    /\ UNCHANGED <<iter_open, last_sent, now, bad_remove>>
    /\ UNCHANGED <<pc, docVars, rowVars, batchVars, scanVars, nameVars, cacheVars>>

\* main.py line 52: accept raises and the handler ends before its try
AcceptRaises(w) ==
    /\ pc = "serve"
    /\ ws_state[w] = "new"
    /\ \E ticker \in Tickers : ws_ticker' = [ws_ticker EXCEPT ![w] = ticker]
    /\ ws_state' = [ws_state EXCEPT ![w] = "refused"]
    /\ UNCHANGED <<active_connections, iter_open, last_sent, now, bad_remove>>
    /\ UNCHANGED <<pc, docVars, rowVars, batchVars, scanVars, nameVars, cacheVars>>

\* main.py lines 530-544: the loop body up to its send; the quote is fetched
Iterate(w) ==
    /\ pc = "serve"
    /\ ws_state[w] = "loop"
    /\ iter_open' = [iter_open EXCEPT ![w] = is_idx_market_open(now)]
    /\ ws_state' = [ws_state EXCEPT ![w] =
          IF is_idx_ticker(ws_ticker[w]) /\ ~is_idx_market_open(now)
          THEN "closed_send" ELSE "quote_send"]
    /\ UNCHANGED <<active_connections, ws_ticker, last_sent, now, bad_remove>>
    /\ UNCHANGED <<pc, docVars, rowVars, batchVars, scanVars, nameVars, cacheVars>>

\* main.py line 544: get_realtime_quote raises; lines 558-560
QuoteRaises(w) ==
    /\ pc = "serve"
    /\ ws_state[w] = "loop"
    /\ ~(is_idx_ticker(ws_ticker[w]) /\ ~is_idx_market_open(now))
    /\ iter_open' = [iter_open EXCEPT ![w] = is_idx_market_open(now)]
    /\ Disconnect(w)
    /\ UNCHANGED <<ws_ticker, last_sent, now>>
    /\ UNCHANGED <<pc, docVars, rowVars, batchVars, scanVars, nameVars, cacheVars>>

\* main.py lines 534-539 and 547-552: the message is sent
SendJson(w) ==
    /\ pc = "serve"
    /\ ws_state[w] \in {"closed_send", "quote_send"}
    /\ last_sent' = [last_sent EXCEPT ![w] =
          <<[type |-> IF ws_state[w] = "closed_send" THEN "market_closed" ELSE "quote",
             ticker |-> ws_ticker[w], open |-> iter_open[w]]>>]
    /\ ws_state' = [ws_state EXCEPT ![w] = "sleep"]
    /\ UNCHANGED <<active_connections, ws_ticker, iter_open, now, bad_remove>>
    /\ UNCHANGED <<pc, docVars, rowVars, batchVars, scanVars, nameVars, cacheVars>>

\* an await of the loop raises: send_json any of AwaitRaises, asyncio.sleep
\* the cancellation of the task; main.py lines 556-560
AwaitFails(w) ==
    /\ pc = "serve"
    /\ ws_state[w] \in {"closed_send", "quote_send", "sleep"}
    /\ \E exc \in (IF ws_state[w] = "sleep" THEN {"CancelledError"} ELSE AwaitRaises) :
          IF HandlerCatches(exc)
          THEN Disconnect(w)
          ELSE /\ ws_state' = [ws_state EXCEPT ![w] = "raised"]
               /\ UNCHANGED <<active_connections, bad_remove>>
    /\ UNCHANGED <<ws_ticker, iter_open, last_sent, now>>
    /\ UNCHANGED <<pc, docVars, rowVars, batchVars, scanVars, nameVars, cacheVars>>

\* main.py lines 541 and 555: the sleep is over
Wake(w) ==
    /\ pc = "serve"
    /\ ws_state[w] = "sleep"
    /\ ws_state' = [ws_state EXCEPT ![w] = "loop"]
    /\ UNCHANGED <<active_connections, ws_ticker, iter_open, last_sent, now, bad_remove>>
    /\ UNCHANGED <<pc, docVars, rowVars, batchVars, scanVars, nameVars, cacheVars>>

\* the clock moves on
Tick ==
    /\ pc = "serve"
    /\ now' \in Instants \ {now}
    /\ UNCHANGED <<active_connections, ws_state, ws_ticker, iter_open, last_sent, bad_remove>>
    /\ UNCHANGED <<pc, docVars, rowVars, batchVars, scanVars, nameVars, cacheVars>>

WsNext ==
    \/ \E w \in Sockets : Connect(w)
    \/ \E w \in Sockets : AcceptRaises(w)
    \/ \E w \in Sockets : Iterate(w)
    \/ \E w \in Sockets : QuoteRaises(w)
    \/ \E w \in Sockets : SendJson(w)
    \/ \E w \in Sockets : AwaitFails(w)
    \/ \E w \in Sockets : Wake(w)
    \/ Tick

SpecWs == WsInit /\ [][WsNext]_vars

\* ================================================================ the claims
Range(q) == {q[i] : i \in 1..Len(q)}

\* C1: the list returned for a document holds at most one record for any
\* (reportDate, holderName, shareCount) triple
C1_AtMostOnePerKey ==
    pc = "done" => \A i, j \in 1..Len(ret) : Key(ret[i]) = Key(ret[j]) => i = j

\* a returned list whose key was produced on two different pages, and twice
\* on one page
C1_Witness ==
    /\ pc = "done" /\ ret # <<>>
    /\ \E i, j \in 1..Len(all_shareholders) :
          /\ i # j /\ Key(all_shareholders[i]) = Key(all_shareholders[j])
          /\ origin[i] # origin[j]
    /\ \E i, j \in 1..Len(all_shareholders) :
          /\ i # j /\ Key(all_shareholders[i]) = Key(all_shareholders[j])
          /\ origin[i] = origin[j]

\* the first record (page order, then line order) that carries the key
IsFirstOfKey(i) ==
    \A m \in 1..(i - 1) : Key(all_shareholders[m]) # Key(all_shareholders[i])

\* C2: of the candidates that share a key the first emitted one is kept, with
\* its ownershipPercent, and every key among the candidates appears
C2_FirstOccurrenceKept ==
    pc = "done" =>
        /\ \A i \in 1..Len(all_shareholders) :
              IsFirstOfKey(i) => \E j \in 1..Len(ret) : ret[j] = all_shareholders[i]
        /\ \A j \in 1..Len(ret) :
              \E i \in 1..Len(all_shareholders) : IsFirstOfKey(i) /\ ret[j] = all_shareholders[i]

\* two candidates of one key with different percentages, the first returned
C2_Witness ==
    /\ pc = "done"
    /\ \E i, j \in 1..Len(all_shareholders) :
          /\ i < j /\ IsFirstOfKey(i)
          /\ Key(all_shareholders[i]) = Key(all_shareholders[j])
          /\ all_shareholders[i].persentase # all_shareholders[j].persentase
          /\ all_shareholders[i] \in Range(ret)

\* C3: adjacent records of the same reportDate are in non-increasing order of
\* ownershipPercent
C3_PercentDescendingWithinDate ==
    pc = "done" =>
        \A i \in 1..(Len(ret) - 1) :
            ret[i].tanggal = ret[i + 1].tanggal => ret[i].persentase >= ret[i + 1].persentase

\* the period labels detect_dates knows
Recognized(label) == \E k \in 1..Len(DatePatterns) : DatePatterns[k].label = label

MonthNo(w) ==
    CASE w = "Maret" -> 3 [] w = "Juni" -> 6 [] w = "September" -> 9 [] OTHER -> 12
YearNo(w) == CASE w = "2023" -> 2023 [] w = "2024" -> 2024 [] OTHER -> 2025

\* the place of a recognized period in time
PeriodRank(label) == YearNo(label[3]) * 12 + MonthNo(label[2])

\* C4: of two records with recognized period labels, the one of the later
\* period never comes after the one of the earlier period
C4_NewestPeriodFirst ==
    pc = "done" =>
        \A i, j \in 1..Len(ret) :
            (i < j /\ Recognized(ret[i].tanggal) /\ Recognized(ret[j].tanggal))
                => PeriodRank(ret[i].tanggal) >= PeriodRank(ret[j].tanggal)

\* C5: every record dated "Unknown" comes after every record with a
\* recognized period label
C5_UnknownLast ==
    pc = "done" =>
        \A i, j \in 1..Len(ret) :
            (ret[i].tanggal = Unknown /\ Recognized(ret[j].tanggal)) => i > j

\* C6: a record emitted by either row parser has 0 < ownershipPercent <= 100
C6_PercentInRange ==
    (pc = "parsed" /\ row_result.out # None) =>
        /\ row_result.out[1].persentase > 0
        /\ row_result.out[1].persentase <= 100 * 10000

Distinct(q) == \A i, j \in 1..Len(q) : q[i] = q[j] => i = j
IsSuccess(e) == DOMAIN e = {"file_name", "shareholders", "total"} /\ e.total = Len(e.shareholders)
IsError(e) == DOMAIN e = {"file_name", "error", "shareholders"} /\ e.shareholders = <<>>
YieldsNoRecord(c) == c.kind = "pdf" /\ extract_shareholders_from_pdf(c.pages) = <<>>

\* C7: for distinct identifiers the result has exactly one entry per
\* identifier, each a success entry or an error entry and never both, and a
\* document without valid records is a success entry with an empty list
C7_OneEntryPerIdentifier ==
    (pc = "returned" /\ Distinct(file_names)) =>
        /\ batch_ret.total_files = Len(file_names)
        /\ Len(batch_ret.results) = Len(file_names)
        /\ \A f \in Range(file_names) :
              Cardinality({i \in 1..Len(batch_ret.results) : batch_ret.results[i].file_name = f}) = 1
        /\ \A i \in 1..Len(batch_ret.results) :
              LET e == batch_ret.results[i]
              IN  /\ IsSuccess(e) # IsError(e)
                  /\ YieldsNoRecord(cache[e.file_name])
                        => (IsSuccess(e) /\ e.shareholders = <<>>)

\* a returned batch with a document without records next to a failed one
C7_Witness ==
    /\ pc = "returned" /\ Distinct(file_names) /\ Len(file_names) >= 2
    /\ \E i, j \in 1..Len(file_names) :
          /\ YieldsNoRecord(cache[file_names[i]])
          /\ IsSuccess(batch_ret.results[i])
          /\ IsError(batch_ret.results[j])

IsPresent(f) == cache[f].kind # "absent"
EntryPresent(e) == IsPresent(e.file_name)

\* C8: an identifier whose file is absent gets the entry "File not found"
\* without records, and the other entries are those of the batch without it
C8_MissingFileIsolated ==
    pc = "returned" =>
        /\ Len(batch_ret.results) = Len(file_names)
        /\ \A i \in 1..Len(file_names) :
              ~IsPresent(file_names[i]) =>
                  batch_ret.results[i] = [file_name |-> file_names[i],
                                          error |-> "File not found",
                                          shareholders |-> <<>>]
        /\ SelectSeq(batch_ret.results, EntryPresent)
              = extract_from_files(cache, SelectSeq(file_names, IsPresent)).results

\* a returned batch with an absent file before a document with records
C8_Witness ==
    /\ pc = "returned"
    /\ \E i, j \in 1..Len(file_names) :
          /\ i < j /\ ~IsPresent(file_names[i])
          /\ cache[file_names[j]].kind = "pdf"
          /\ batch_ret.results[j].shareholders # <<>>

\* C9: a document whose extraction raises gets an error entry with the
\* message and no records, nothing is raised to the caller, and the
\* identifiers after it are processed
C9_FailureContained ==
    /\ pc # "raised"
    /\ pc = "returned" =>
          /\ Len(batch_ret.results) = Len(file_names)
          /\ \A i \in 1..Len(file_names) :
                cache[file_names[i]].kind = "raises" =>
                    batch_ret.results[i] = [file_name |-> file_names[i],
                                            error |-> cache[file_names[i]].msg,
                                            shareholders |-> <<>>]

\* a returned batch where a file that cannot be opened precedes a document
C9_Witness ==
    /\ pc = "returned"
    /\ \E i, j \in 1..Len(file_names) :
          /\ i < j
          /\ cache[file_names[i]] = Raises("PDFSyntaxError", "No /Root object! - Is this really a PDF?")
          /\ IsSuccess(batch_ret.results[j]) /\ batch_ret.results[j].shareholders # <<>>

MarkedAsShareholderPage(text) ==
    /\ has_modal_saham_section(text) /\ has_pemegang_saham(text)
    /\ has_susunan_in_page(text) /\ has_persentase(text) /\ has_shareholder_data(text)

\* C10: a page that matches the table-of-contents or the sales pattern is
\* never selected, and no record of the output comes from such a page
C10_TocAndSalesNeverSelected ==
    /\ \A k \in 1..Len(shareholder_pages) :
          /\ ~is_toc(pdf[shareholder_pages[k][1]])
          /\ ~is_sales_page(pdf[shareholder_pages[k][1]])
    /\ \A i \in 1..Len(origin) :
          /\ ~is_toc(pdf[origin[i]]) /\ ~is_sales_page(pdf[origin[i]])
          /\ \E k \in 1..Len(shareholder_pages) : shareholder_pages[k][1] = origin[i]
    /\ pc = "done" => \A j \in 1..Len(ret) : ret[j] \in Range(all_shareholders)

\* a finished document with a table-of-contents page and a sales page that
\* both carry every other marker
C10_Witness ==
    /\ pc = "done"
    /\ \E n \in 1..Len(pdf) : is_toc(pdf[n]) /\ MarkedAsShareholderPage(pdf[n])
    /\ \E n \in 1..Len(pdf) : is_sales_page(pdf[n]) /\ MarkedAsShareholderPage(pdf[n])

\* C11: a page whose numbered "Modal Saham" header is marked as a
\* continuation is never selected, under any page type, and no record comes
\* from it
C11_ContinuationPageExcluded ==
    /\ \A k \in 1..Len(shareholder_pages) :
          ~is_modal_saham_continuation(pdf[shareholder_pages[k][1]])
    /\ \A i \in 1..Len(origin) : ~is_modal_saham_continuation(pdf[origin[i]])

\* the records all_shareholders holds from page n, in order
RECURSIVE RecordsOf(_, _)
RecordsOf(n, i) ==
    IF i > Len(all_shareholders) THEN <<>>
    ELSE (IF origin[i] = n THEN <<all_shareholders[i]>> ELSE <<>>) \o RecordsOf(n, i + 1)

\* the page is past the two rejections and has the header (not marked as a
\* continuation) and the shareholders keyword
IsStructuredSection(text) ==
    /\ ~is_toc(text) /\ ~is_sales_page(text)
    /\ has_modal_saham_section(text) /\ has_pemegang_saham(text)

\* the page also passes the tests of the two generic branches
GenericConditions(text) ==
    /\ has_susunan_in_page(text) /\ has_shareholder_data(text)
    /\ has_pemegang_saham(text) /\ has_persentase(text)

\* C12: a page with the header and the shareholders keyword is selected as
\* 'modal_saham' and its records are those of parse_modal_saham_format; no
\* page is selected twice and every selected page is parsed by the one
\* strategy of its page type
C12_StructuredSectionFirst ==
    /\ \A j, k \in 1..Len(shareholder_pages) :
          shareholder_pages[j][1] = shareholder_pages[k][1] => j = k
    /\ \A n \in 1..(page_num - 1) :
          IsStructuredSection(pdf[n]) =>
              \E k \in 1..Len(shareholder_pages) : shareholder_pages[k] = <<n, "modal_saham">>
    /\ \A k \in 1..(sel - 1) :
          LET n == shareholder_pages[k][1]
          IN  RecordsOf(n, 1) =
                 IF shareholder_pages[k][2] = "modal_saham"
                 THEN parse_modal_saham_format(pdf[n], detect_dates(pdf[n]))
                 ELSE parse_shareholders_multidate(pdf[n], detect_dates(pdf[n]))

\* a parsed page with the header that also passes the generic tests, on
\* which the two strategies give different records
C12_Witness ==
    \E k \in 1..(sel - 1) :
        LET text == pdf[shareholder_pages[k][1]]
        IN  /\ IsStructuredSection(text) /\ GenericConditions(text)
            /\ shareholder_pages[k][2] = "modal_saham"
            /\ parse_modal_saham_format(text, detect_dates(text))
                  # parse_shareholders_multidate(text, detect_dates(text))
            /\ RecordsOf(shareholder_pages[k][1], 1) # <<>>

\* a line made of a holder name, a share count grouped by `tsep` and a
\* percentage written with `dsep` and two to four decimals
SyntheticLine(line, tsep, dsep) ==
    /\ line.lead # <<>> /\ \A i \in 1..Len(line.lead) : IsAlpha(line.lead[i])
    /\ line.tail = <<>> /\ Len(line.nums) = 2
    /\ LET sh == line.nums[1]
           p  == line.nums[2]
       IN  /\ sh.sep = tsep /\ ~sh.pct /\ Len(sh.runs) >= 2
           /\ Len(sh.runs[1]) \in 1..3
           /\ \A j \in 2..Len(sh.runs) : Len(sh.runs[j]) = 3
           /\ p.sep = dsep /\ Len(p.runs) = 2
           /\ Len(p.runs[1]) \in 1..3 /\ Len(p.runs[2]) \in 2..4

\* one group after one comma, and a dot percentage of exactly three decimals:
\* "10,000 12.500" reads as well as a dot-grouped number after a comma decimal
ReadsBothWays(line) ==
    /\ SyntheticLine(line, ",", ".")
    /\ Len(line.nums[1].runs) = 2 /\ Len(line.nums[2].runs[2]) = 3

ModalParsed == pc = "parsed" /\ row_result.strategy = "modal_saham"

\* C13 as claimed: every comma-thousands/dot-decimal line resolves to
\* (",", ".") and every dot-thousands/comma-decimal line to (".", ",")
C13_RoundTrip ==
    ModalParsed =>
        /\ SyntheticLine(row.line, ",", ".") => row_result.format = <<",", ".">>
        /\ SyntheticLine(row.line, ".", ",") => row_result.format = <<".", ",">>

\* C13 amended: a comma-thousands/dot-decimal line resolves to (",", ".")
\* unless its share count has a single group and its percentage exactly
\* three decimals, when it resolves to (".", ","); every
\* dot-thousands/comma-decimal line resolves to (".", ",")
C13_RoundTripUnlessBothWays ==
    ModalParsed =>
        /\ (SyntheticLine(row.line, ",", ".") /\ ~ReadsBothWays(row.line))
              => row_result.format = <<",", ".">>
        /\ ReadsBothWays(row.line) => row_result.format = <<".", ",">>
        /\ SyntheticLine(row.line, ".", ",") => row_result.format = <<".", ",">>

\* a single-group comma share count before a four-decimal dot percentage,
\* resolved to comma thousands
C13_Witness ==
    /\ ModalParsed /\ SyntheticLine(row.line, ",", ".")
    /\ Len(row.line.nums[1].runs) = 2 /\ Len(row.line.nums[2].runs[2]) = 4
    /\ row_result.format = <<",", ".">>

\* the row is a synthetic line that reads one way only, so that its second
\* number is the percentage as written
PlainRow ==
    \/ SyntheticLine(row.line, ".", ",")
    \/ (SyntheticLine(row.line, ",", ".") /\ ~ReadsBothWays(row.line))

\* the written percentage of a synthetic line in units of 1/10000, and the
\* number of its fractional digits
Written == Num(row.line.nums[2].runs[1]) * 10000
             + Num(row.line.nums[2].runs[2])
                 * (CASE Len(row.line.nums[2].runs[2]) = 2 -> 100
                      [] Len(row.line.nums[2].runs[2]) = 3 -> 10
                      [] OTHER -> 1)
WrittenDecimals == Len(row.line.nums[2].runs[2])

\* the nearest multiple of 0.01 (no written value of the rows is a tie)
Nearest(v) == IF (v % 100) * 2 > 100 THEN v + 100 - (v % 100) ELSE v - (v % 100)

ModalEmitted == ModalParsed /\ PlainRow /\ row_result.out # None

\* C14 as claimed: the structured-section strategy rounds a percentage of
\* more than two decimals to the nearest two-decimal value when it is at
\* least 0.01 and keeps it as written when it is below 0.01
C14_RoundedToNearest ==
    (ModalEmitted /\ WrittenDecimals > 2) =>
        row_result.out[1].persentase = IF Written >= 100 THEN Nearest(Written) ELSE Written

\* C14 amended: the structured-section strategy cuts a percentage of more
\* than two decimals after its second decimal, and keeps it as written when
\* it is below 0.1 (integer part "0", first decimal 0)
C14_TruncatedUnlessBelowTenth ==
    (ModalEmitted /\ WrittenDecimals > 2) =>
        row_result.out[1].persentase = IF Written >= 1000 THEN Written - (Written % 100)
                                       ELSE Written

\* 69,0790 emitted as 69.07
C14_Witness ==
    /\ ModalEmitted /\ WrittenDecimals = 4
    /\ Written = 690790 /\ row_result.out[1].persentase = 690700

\* the row is a data line both strategies accept: dot thousands, a comma
\* percentage with its sign, a lead that is a holder name by itself
ValidDataLine ==
    /\ SyntheticLine(row.line, ".", ",") /\ row.line.nums[2].pct
    /\ row.line.lead \in {<<"PT", "Abc", "Def">>, <<"Muhammad", "Arif">>, <<"Masyarakat">>}

\* C15: a valid data line whose percentage is above 0 and below 0.01 gives,
\* under either strategy, a record with the percentage as written
C15_SmallPercentagePreserved ==
    (pc = "parsed" /\ ValidDataLine /\ Written > 0 /\ Written < 100) =>
        /\ row_result.out # None
        /\ row_result.out[1].persentase = Written

\* "Muhammad Arif 10.000 0,0001%" read by the generic strategy
C15_Witness ==
    /\ pc = "parsed" /\ row_result.strategy = "susunan" /\ ValidDataLine
    /\ row.line.lead = <<"Muhammad", "Arif">> /\ row.name_prefix = <<>>
    /\ Written = 1 /\ row_result.out # None /\ row_result.out[1].persentase = 1

\* C20: the labels detect_dates returns for a page are ordered most recent
\* period first, so the default label of a call is the most recent period the
\* page mentions
C20_MostRecentFirst ==
    (pc = "scan" /\ line_i = 1) =>
        LET dates == detect_dates(page_text)
        IN  /\ \A i, j \in 1..Len(dates) :
                   i < j => PeriodRank(dates[i]) > PeriodRank(dates[j])
            /\ \A i \in 1..Len(dates) : PeriodRank(cur_date) >= PeriodRank(dates[i])

\* the kinds of line the claims about the scans speak of
IsBlankLine(line) == LineWords(line) = <<>>
IsPeriodHeader(line) == line.nums = <<>> /\ line.tail = <<>> /\ Recognized(line.lead)
IsHeaderOrTotal(line) ==
    /\ line.lead # <<>>
    /\ \/ Lower(line.lead[1]) \in {"jumlah", "total", "persentase"}
       \/ (Len(line.lead) >= 2 /\ LowerAll(SubSeq(line.lead, 1, 2)) \in
              {<<"pemegang", "saham">>, <<"saham", "seri">>})
IsPtOnly(line) ==
    /\ line.nums = <<>> /\ line.tail = <<>>
    /\ Len(line.lead) >= 2 /\ line.lead[1] = "PT"
    /\ \A i \in 1..Len(line.lead) : IsAlpha(line.lead[i])

\* C17: the pending fragment is empty when the scan of a page starts and right
\* after a blank line, a period-header line, a column-header or total line, and
\* a line that emitted a record; the first line of a page is read without any
\* fragment of the page before
C17_PendingReset ==
    pc = "scan" =>
        /\ line_i = 1 => pending = <<>>
        /\ line_i > 1 =>
              LET last == page_text[line_i - 1]
              IN  (\/ IsBlankLine(last) \/ IsPeriodHeader(last) \/ IsHeaderOrTotal(last)
                   \/ emits[line_i - 1] # <<>>) => pending = <<>>
        /\ (line_i > 1 /\ emits[1] # <<>>) =>
              emits[1][1].pemegang_saham = page_text[1].lead

\* a page whose scan ended with a fragment pending is followed by a page whose
\* first line emitted a record
C17_Witness ==
    /\ pc = "scan" /\ calls = 2 /\ left_pending # <<>>
    /\ line_i > Len(page_text)
    /\ emits[1] # <<>>

\* the label a call starts with
DefaultLabel ==
    IF detect_dates(page_text) # <<>> THEN detect_dates(page_text)[1] ELSE Unknown

HeadersAbove(k) == {j \in 1..(k - 1) : IsPeriodHeader(page_text[j])}

\* the label of the nearest period header above line k, the default without one
LabelAt(k) ==
    IF HeadersAbove(k) = {} THEN DefaultLabel
    ELSE page_text[CHOOSE j \in HeadersAbove(k) : \A i \in HeadersAbove(k) : i <= j].lead

\* C19: every record carries the label that was current when its line was
\* scanned: the label of the nearest period header above the line, and above
\* every period header the first label detected on the page or "Unknown"; a
\* data line of a page without any label is still emitted
C19_CurrentLabel ==
    pc = "scan" =>
        \A k \in 1..(line_i - 1) :
            /\ emits[k] # <<>> => emits[k][1].tanggal = LabelAt(k)
            /\ (detect_dates(page_text) = <<>> /\ page_text[k] = RowA) =>
                  /\ emits[k] # <<>> /\ emits[k][1].tanggal = Unknown

\* "PT Abc Def 10.093.210 24,81%" emitted under a period header whose label
\* is not the default of the page
C19_Witness ==
    /\ pc = "scan"
    /\ \E k \in 1..(line_i - 1) :
          /\ emits[k] # <<>> /\ HeadersAbove(k) # {}
          /\ LabelAt(k) # DefaultLabel
          /\ emits[k][1].jumlah_saham = <<1, 0, 0, 9, 3, 2, 1, 0>>
          /\ emits[k][1].persentase = 248100

RECURSIVE JoinRuns(_)
\* the digits of a grouped number
JoinRuns(runs) == IF runs = <<>> THEN <<>> ELSE Head(runs) \o JoinRuns(Tail(runs))

\* the percentage a data line states, in units of 1/10000
StatedPct(line) ==
    Num(line.nums[2].runs[1]) * 10000
      + Num(line.nums[2].runs[2])
          * (CASE Len(line.nums[2].runs[2]) = 2 -> 100
               [] Len(line.nums[2].runs[2]) = 3 -> 10
               [] OTHER -> 1)

\* '<leading text> <grouped share count> <percentage>' with an alphabetic
\* leading text that is no header or total word
IsLedDataLine(line) ==
    /\ line.lead # <<>> /\ \A i \in 1..Len(line.lead) : IsAlpha(line.lead[i])
    /\ ~IsHeaderOrTotal(line)
    /\ Len(line.nums) = 2 /\ line.tail = <<>>
    /\ line.nums[1].sep = "." /\ Len(line.nums[1].runs) >= 2 /\ ~line.nums[1].pct
    /\ line.nums[2].sep = "," /\ Len(line.nums[2].runs) = 2 /\ line.nums[2].pct

\* a "PT ..." line directly followed by such a data line, both scanned
PairAt(k) ==
    /\ k + 1 < line_i
    /\ IsPtOnly(page_text[k]) /\ IsLedDataLine(page_text[k + 1])

\* the pair gave one record with the numbers of the second line
OneRecordAt(k) ==
    /\ emits[k] = <<>> /\ Len(emits[k + 1]) = 1
    /\ emits[k + 1][1].jumlah_saham = JoinRuns(page_text[k + 1].nums[1].runs)
    /\ emits[k + 1][1].persentase <= StatedPct(page_text[k + 1]) + 50
    /\ emits[k + 1][1].persentase > StatedPct(page_text[k + 1]) - 100

\* a leading text the structured-section strategy takes as a holder by itself
StandsAlone(lead) ==
    \/ \E i \in 1..Len(lead) : Lower(lead[i]) = "masyarakat"
    \/ (Len(lead) = 2 /\ IsCapWord(lead[1]) /\ IsCapWord(lead[2]))
    \/ (Len(lead) >= 2 /\ Lower(lead[1]) = "pt")

C18_DuplicateCollapsed ==
    pc = "cleaned" => clean_ret = StripPunct(dup_name.w \o dup_name.rest)

\* the digits the runs of one separator style capture in the row
Captured(sep) == SumDigits(FindAll(row.line, sep))

\* the row has a run with a 3-digit group under both styles, and the
\* structured-section parser resolved its format
BothStyles ==
    /\ ModalParsed /\ row_result.format # <<>>
    /\ LineHasGrouped(row.line, ".", 1) /\ LineHasGrouped(row.line, ",", 1)

\* C21 as claimed: with grouped runs under both styles the thousands
\* separator is the style that captures more digits, the dot when both
\* capture as many
C21_MoreDigitsWin ==
    BothStyles =>
        row_result.format[1] = IF Captured(".") >= Captured(",") THEN "." ELSE ","

\* the structured-section parser came as far as the resolver
ResolverConsulted ==
    /\ ModalParsed /\ ~ModalSkip(row.line)
    /\ (HasValidStart(row.line) \/ row.name_prefix # <<>>)

\* a run of two or more 3-digit groups under the style
LongRun(sep) == LineHasGrouped(row.line, sep, 2)

\* C21 amended: the digits are compared only when both styles have a run of
\* two or more 3-digit groups (more digits win, the dot on a tie); a style
\* that alone has such a run is chosen; with single groups only the dot is
\* chosen when a dot run ends after its 3-digit group, else the comma
C21_MoreDigitsWinAmongLongRuns ==
    (ResolverConsulted /\ LineHasGrouped(row.line, ".", 1) /\ LineHasGrouped(row.line, ",", 1)) =>
        /\ row_result.format # <<>>
        /\ row_result.format[1] =
              IF LongRun(".") /\ LongRun(",")
              THEN (IF Captured(".") >= Captured(",") THEN "." ELSE ",")
              ELSE IF LongRun(".") THEN "."
              ELSE IF LongRun(",") THEN ","
              ELSE IF HasSmall(row.line, ".") THEN "." ELSE ","

\* "PT Abc Def 10.093.210 24,81 10,093,210": eight digits under either
\* style, resolved to dot thousands
C21_Witness ==
    /\ ResolverConsulted /\ LongRun(".") /\ LongRun(",")
    /\ Captured(".") = Captured(",")
    /\ row_result.format = <<".", ",">>

\* the same numeric token written with the other separator
Swapped(t) == [t EXCEPT !.sep = IF t.sep = "." THEN "," ELSE "."]
\* the same row with dot thousands and comma decimal instead of comma
\* thousands and dot decimal, and conversely
Twin(line) == [line EXCEPT !.nums = [i \in DOMAIN line.nums |-> Swapped(line.nums[i])]]

GenericParsed == pc = "parsed" /\ row_result.strategy = "susunan"

\* C22: the generic strategy gives, for a data line written with comma
\* thousands and dot decimal, the record it gives for the same row written
\* with dot thousands and comma decimal
C22_SameRecordEitherStyle ==
    (GenericParsed /\ SyntheticLine(row.line, ",", ".") /\ row.line.nums[2].pct) =>
        row_result.out = extract_shareholder_single_row_v2(Twin(row.line), RowDate, row.name_prefix)

\* a line without numbers that holds words only: the shape of a fragment
IsFragmentLine(line) ==
    /\ line.nums = <<>> /\ line.tail = <<>> /\ line.lead # <<>>
    /\ \A i \in 1..Len(line.lead) : IsAlpha(line.lead[i])

\* the record emitted from line k holds a word of line j that neither
\* line k nor a line between the two holds
TakesFrom(k, j) ==
    /\ emits[k] # <<>>
    /\ \E i \in 1..Len(page_text[j].lead) :
          /\ page_text[j].lead[i] \in Range(emits[k][1].pemegang_saham)
          /\ \A m \in (j + 1)..k : page_text[j].lead[i] \notin Range(page_text[m].lead)

\* C23 as claimed: a record emitted two or more non-empty lines below a
\* fragment line takes no part of its name from that line
C23_NextLineOnly ==
    pc = "scan" =>
        \A j \in 1..Len(page_text) : \A k \in 1..Len(page_text) :
            (/\ j < k /\ k < line_i /\ IsFragmentLine(page_text[j])
             /\ \E m \in (j + 1)..(k - 1) : ~IsBlankLine(page_text[m]))
                => ~TakesFrom(k, j)

\* a line after which the scan in progress holds nothing of the fragment it
\* held before: a blank line, a period header, a header or total line, a
\* "PT ..." or "Masyarakat" line (which starts a fragment of its own), and a
\* line with numbers (for the generic strategy a line with a word of the
\* financial-statement tables or, unless it begins "(masing-masing" or
\* "(each below", with a digit)
DropsFragment(line) ==
    LET ws == LineWords(line)
    IN  \/ ws = <<>>
        \/ IsPtNameLine(ws)
        \/ /\ parser = "modal_saham"
           /\ \/ IsDateSection(ws) \/ ModalSkippedLine(ws) \/ HasNumbers(line)
              \/ (Len(ws) = 1 /\ Lower(ws[1]) = "masyarakat")
        \/ /\ parser = "susunan"
           /\ \/ MatchedLabels(ws, date_patterns) # <<>>
              \/ GenericSkippedLine(ws) \/ GenericNonShareholder(ws)
              \/ /\ ws[1] \notin {"(masing-masing", "(each"}
                 /\ (line.nums # <<>> \/ \E i \in 1..Len(ws) : StartsWithDigit(ws[i]))

\* C23 amended: a record takes no part of its name from a fragment line
\* above it when a line that drops the fragment lies between the two; the
\* other lines in between (words without digits) leave the fragment pending
C23_UntilDropped ==
    pc = "scan" =>
        \A j \in 1..Len(page_text) : \A k \in 1..Len(page_text) :
            (/\ j < k /\ k < line_i /\ IsFragmentLine(page_text[j])
             /\ \E m \in (j + 1)..(k - 1) : DropsFragment(page_text[m]))
                => ~TakesFrom(k, j)

\* "PT Abc Ghi", then "PT Abc Def 10.093.210 24,81%", then
\* "Nusantara 5.311.440.200 69,0790%" read by the structured-section
\* strategy: the third line gives a record named without the first
C23_Witness ==
    /\ pc = "scan" /\ parser = "modal_saham" /\ line_i > 3 /\ Len(page_text) >= 3
    /\ page_text[1] = LPtName /\ HasNumbers(page_text[2]) /\ emits[2] # <<>>
    /\ emits[3] # <<>> /\ emits[3][1].pemegang_saham = <<"Nusantara">>

\* C24: no record of either strategy is named with a word of the name
\* blacklist of the generic strategy
C24_NoBlacklistedName ==
    (pc = "parsed" /\ row_result.out # None) =>
        ~\E kw \in skip_keywords : ContainsPhrase(LowerAll(row_result.out[1].pemegang_saham), kw)

\* the digits of the first run the share pattern of the strategy matches in
\* the row (lines 409-447 under the resolved separator, line 1050), as a
\* sequence of at most one integer
FirstShareRun ==
    IF row_result.strategy = "modal_saham"
    THEN (IF row_result.format = <<>> \/ FindAll(row.line, row_result.format[1]) = <<>> THEN <<>>
          ELSE <<IntDigits(FindAll(row.line, row_result.format[1])[1].digits)>>)
    ELSE (IF SharePlaces(row.line) = {} THEN <<>>
          ELSE LET sp == FirstPlace(SharePlaces(row.line))
                   t  == row.line.nums[sp[1]]
               IN  <<IntDigits(t.runs[sp[2]]
                       \o GroupDigits(t.runs, sp[2] + 1, ExactGroups(t.runs, sp[2] + 1)))>>)

\* C25: every record holds a share count of at least 1,000, and a row whose
\* first grouped-digit run (the first match of the strategy's share pattern)
\* parses below 1,000 gives no record, under either strategy
C25_MinimumShareCount ==
    pc = "parsed" =>
        /\ row_result.out # None => 
              \/ Len(row_result.out[1].jumlah_saham) > 4
              \/ Num(row_result.out[1].jumlah_saham) >= 1000
        /\ (FirstShareRun # <<>> /\ Len(FirstShareRun[1]) < 4 /\ Num(FirstShareRun[1]) < 1000)
              => row_result.out = None

\* "PT Abc Def 0.500 10.093.210 24,81%" read by the generic strategy: the
\* first run is 500 and the row gives nothing, though a share count follows
C25_Witness ==
    /\ GenericParsed /\ row.line.lead = <<"PT", "Abc", "Def">>
    /\ Len(row.line.nums) = 3 /\ FirstShareRun = <<<<5, 0, 0>>>>
    /\ row.line.nums[2].runs = <<<<1, 0>>, <<0, 9, 3>>, <<2, 1, 0>>>>
    /\ row_result.out = None

\* C27: cleaning a cleaned name changes nothing
C27_Idempotent ==
    pc = "cleaned" => clean_shareholder_name_v2(clean_ret) = clean_ret

\* C28: when download_pdfs has returned, the file each entry of 'downloaded'
\* names holds the body of the URL the entry was made for, and every URL of
\* the call has an entry in exactly one of 'downloaded' and 'errors'
C28_EntryHoldsOwnBody ==
    pc = "downloaded" =>
        /\ \A i \in 1..Len(dl_ret.downloaded) :
              cache_files[dl_ret.downloaded[i].file_name] = written[i].body
        /\ Len(dl_ret.downloaded) + Len(dl_ret.errors) = Len(dl_urls)
        /\ \A k \in 1..Len(dl_urls) :
              (\E i \in 1..Len(written) : written[i].url = dl_urls[k])
                 \/ (\E i \in 1..Len(dl_ret.errors) : dl_ret.errors[i].url = dl_urls[k])

\* C29: extract_from_files answers 'File not found' for a non-empty name
\* exactly when the name was not downloaded since the last clear_cache
C29_NotFoundIffNotDownloaded ==
    \A i \in 1..Len(asked) :
        asked[i] # "" =>
            ((answer.results[i] = MissingEntry(asked[i])) <=> (asked[i] \notin fresh))

\* the tickers of the Indonesia Stock Exchange: '.JK' stocks and the '^JK...'
\* indices (main.py lines 105 and 391-392)
IsIdxListed(ticker) == ticker \in {"BBCA.JK", "^JKSE", "^JKLQ45"}

\* C26: on a websocket opened for an IDX ticker, a message sent in an
\* iteration that began with the market closed is a 'market_closed' message,
\* never a 'quote'
C26_NoQuoteWhileClosed ==
    pc = "serve" =>
        \A w \in Sockets :
            (last_sent[w] # <<>> /\ IsIdxListed(ws_ticker[w]) /\ ~last_sent[w][1].open)
                => last_sent[w][1].type = "market_closed"

\* C30: a websocket is listed at most once, is listed while its loop runs and
\* not listed once its handler has ended, and disconnect is never called for a
\* websocket that is not listed
C30_ListedWhileRunning ==
    pc = "serve" =>
        /\ \A w \in Sockets :
              Cardinality({i \in 1..Len(active_connections) : active_connections[i] = w}) <= 1
        /\ \A w \in Sockets :
              ws_state[w] \in {"loop", "closed_send", "quote_send", "sleep"}
                 => \E i \in 1..Len(active_connections) : active_connections[i] = w
        /\ \A w \in Sockets :
              ws_state[w] \in {"returned", "raised"}
                 => \A i \in 1..Len(active_connections) : active_connections[i] # w
        /\ ~bad_remove

====
